---- MODULE Spec2Model ----
(***************************************************************************)
(* A model of the Aldes cloud client (api.py) and of its refresh           *)
(* coordinator (coordinator.py): the request layer with its emergency      *)
(* cache and its backoff retrier, the 401 interceptor, authenticate(),     *)
(* fetch_data(), the temperature queue worker and the poll tick.           *)
(* Every await of the code is a step of the model; the remote server and   *)
(* the clock are the environment.                                          *)
(***************************************************************************)
EXTENDS Integers, Sequences, FiniteSets, TLC

VARIABLES
    token,            \* AldesApi._token
    cache,            \* AldesApi._cache, by cache key
    cache_timestamp,  \* AldesApi._cache_timestamp, by cache key
    now,              \* the wall clock, in seconds, as datetime.now(UTC) reads it
    req,              \* the _api_request call in flight of each caller
    queue,            \* AldesApi.queue_target_temperature
    worker,           \* the _temperature_worker task
    data,             \* AldesDataUpdateCoordinator.data
    skip_next_update, \* AldesDataUpdateCoordinator.skip_next_update
    poll,             \* the _async_update_data call in flight
    stored,           \* history: the body of the latest HTTP 200 stored, by key
    enqueued,         \* history: the items put on the queue, in order
    started,          \* history: the items handed to change_temperature, in order
    patches,          \* history: the updateThermostats PATCH requests sent
    idles,            \* history: the long idle periods elapsed
    climate,          \* the AldesClimateEntity of one thermostat (climate.py)
    posted            \* history: the JSON-RPC commands handed to _send_command

vars == <<token, cache, cache_timestamp, now, req, queue, worker, data,
          skip_next_update, poll, stored, enqueued, started, patches, idles,
          climate, posted>>

(***************************************************************************)
(* Program constants and the bounds of the model.                          *)
(***************************************************************************)
HTTP_OK == 200
HTTP_UNAUTHORIZED == 401
REQUEST_DELAY == 5
CACHE_TTL == 300
max_tries == 3

MaxEnq == 2      \* items put on the queue in one behaviour
MaxIdles == 2    \* long idle periods between requests
MaxCmds == 2     \* mode and temperature commands given to the climate entity
MaxPosted == 2   \* JSON-RPC commands built in one behaviour

(***************************************************************************)
(* JSON values.  A body is a tagged value, so that isinstance() and the    *)
(* key lookups of the code are decided by the value.                       *)
(***************************************************************************)
NoEntry == [type |-> "absent"]

\* The "settings" object of an indicator: the household, the antilegionella
\* day and the two kWh prices the device holds, in 1/10000 EUR.
ReportedSettings ==
    [people |-> "2", antilegio |-> 1, kwh_pleine |-> 1897, kwh_creuse |-> 1423]

\* The "indicator" object of a product, with one thermostat.
Indicator(tset) ==
    [fmist |-> 16, fmast |-> 24, cmast |-> 31, cmist |-> 22,
     current_air_mode |-> "B", current_water_mode |-> "M",
     settings |-> ReportedSettings,
     thermostats |-> <<[ThermostatId |-> 1, Name |-> "T", TemperatureSet |-> tset]>>]

Product(conn, tset) ==
    [type |-> "dict", keys |-> "all", isConnected |-> conn, modem |-> "m1",
     TemperatureSet |-> tset, indicator |-> Indicator(tset),
     week_planning |-> <<"00B">>]

ProductA == Product(TRUE, 20)
ProductB == Product(FALSE, 21)
ProductPartial == [Product(TRUE, 20) EXCEPT !.keys = "partial"]
ProductEmpty == [Product(FALSE, 0) EXCEPT !.keys = "none", !.modem = ""]

JsonList(items) == [type |-> "list", items |-> items]
JsonDict == [type |-> "dict", keys |-> "error"]
JsonString == [type |-> "str"]
Ack == [type |-> "dict", keys |-> "ack"]

\* The cache keys, f"{method}:{url}".
URL_PRODUCTS == "get:products"
ThermostatsUrl(modem) == "patch:products/" \o modem \o "/updateThermostats"
URL_THERMOSTATS == ThermostatsUrl("m1")
Keys == {URL_PRODUCTS, URL_THERMOSTATS}

\* The cache keys of the facade: every JSON-RPC command of a modem is a POST
\* to the same URL, whatever its method and parameters.
URL_COMMANDS == "post:products/m1/commands"
URL_RESET_FILTER == "patch:products/m1/resetFilter"
URL_STATISTICS == "get:products/m1/statistics/s/e/month"
FacadeKeys == {URL_COMMANDS, URL_RESET_FILTER, URL_STATISTICS}
CacheKeys == Keys \cup FacadeKeys

\* The body of a statistics answer.
Statistics == [type |-> "dict", keys |-> "statistics"]

\* What the server may answer with a 200 to a request of this key.
ServerBodies(key) ==
    IF key = URL_PRODUCTS
    THEN {JsonList(<<ProductA>>), JsonList(<<ProductB>>), JsonList(<<>>),
          JsonList(<<ProductPartial>>), JsonList(<<ProductEmpty>>),
          JsonList(<<JsonString>>), JsonDict}
    ELSE IF key = URL_COMMANDS THEN {Ack, JsonDict}
    ELSE IF key = URL_STATISTICS THEN {Statistics}
    ELSE {Ack}

\* What one HTTP exchange ends in: a response (status, body, whether the body
\* is JSON) or an exception of the transport.
Responses(key) ==
    [status : {HTTP_OK}, body : ServerBodies(key), json : {TRUE}, exc : {""}]
    \cup [status : {HTTP_OK, HTTP_UNAUTHORIZED, 500}, body : {NoEntry},
          json : {FALSE}, exc : {""}]
    \cup [status : {0}, body : {NoEntry}, json : {FALSE},
          exc : {"ClientConnectionError", "TimeoutError"}]

Tokens == {"t1", "t2"}

\* What the token endpoint answers: access_token "" stands for a body without
\* the key; json tells what response.json() does with the body: it parses
\* ("ok"), the content type is not JSON ("notjson"), or the content type is
\* JSON and the text is not ("malformed").
AuthResponses ==
    [status : {HTTP_OK}, access_token : Tokens \cup {""}, json : {"ok"}, exc : {""}]
    \cup [status : {HTTP_UNAUTHORIZED, 500}, access_token : {""}, json : {"ok"},
          exc : {""}]
    \cup [status : {HTTP_OK, HTTP_UNAUTHORIZED, 500}, access_token : {""},
          json : {"notjson", "malformed"}, exc : {""}]
    \cup [status : {0}, access_token : {""}, json : {"ok"},
          exc : {"ClientConnectionError", "TimeoutError"}]

Callers == {"cmd", "poll", "worker", "verify"}

(***************************************************************************)
(* The request layer: _api_request under backoff.on_exception, around      *)
(* _request_with_auth_interceptor and authenticate().                      *)
(***************************************************************************)
NoResult == [kind |-> "none", body |-> NoEntry, exc |-> ""]
Return(b) == [kind |-> "return", body |-> b, exc |-> ""]
Raise(e) == [kind |-> "raise", body |-> NoEntry, exc |-> e]

\* History of the authenticate() call of an attempt: the status it was answered
\* with (0: no response) and the exception it raised ("": it returned).
NoAuth == [status |-> 0, raised |-> "none"]
AuthLog(status, exc) == [status |-> status, raised |-> exc]

IdleRequest ==
    [pc |-> "idle", key |-> URL_PRODUCTS, tries |-> 0, result |-> NoResult,
     auths |-> 0, sends |-> 0, resends |-> 0, a_auths |-> 0, a_sends |-> 0,
     a_401 |-> FALSE, a_authok |-> FALSE, failed |-> FALSE, expect |-> NoEntry,
     a_auth |-> NoAuth, giveup |-> "", exhausted |-> FALSE, a_status |-> 0,
     bearer |-> ""]

\* The call enters _api_request: the first attempt is about to send.
NewRequest(key) == [IdleRequest EXCEPT !.pc = "send1", !.key = key, !.tries = 1]

\* isinstance(err, ClientError): the error of line 111, the error of line 136
\* and the transport errors of aiohttp are all ClientError.
IsClientError(exc) ==
    exc \in {"ClientError(status)", "ClientError(invalid)", "ClientConnectionError"}

\* Mutant: the error raised for a non-200 status is not retried.
Retried_TransportOnly(exc) == exc \in {"ClientConnectionError", "TimeoutError"}

\* backoff.on_exception: which exceptions are retried.
Retried(exc) == IsClientError(exc) \/ exc = "TimeoutError"

\* Mutant: the retrier stops on max_time only and never counts its attempts.
GiveUp_TimeOnly(tries, timeUp) == timeUp

\* backoff.on_exception: the retrier gives up after max_tries attempts, or
\* once max_time has elapsed (timeUp).
GiveUp(tries, timeUp) == tries >= max_tries \/ timeUp

\* Mutant: an entry older than CACHE_TTL is treated as absent.
CacheLookup_Expiring(c, key) ==
    IF now - cache_timestamp[key] > CACHE_TTL THEN NoEntry ELSE c[key]

\* The fallback of the except block: the cached body, if the key has one.
CacheLookup(c, key) == c[key]

\* Mutant: the retrier sits inside the fallback, so that the cache is read
\* only when the retrier has given up.
AttemptFailed_RetryFirst(r, exc, timeUp) ==
    LET hit == CacheLookup(cache, r.key)
        out == IF exc \in {"KeyError", "ValueError"} THEN "ClientError(invalid)"
               ELSE exc
        f == [r EXCEPT !.failed = TRUE, !.expect = stored[r.key]]
        limit == IF ~Retried(out) THEN ""
                 ELSE IF r.tries >= max_tries THEN "max_tries" ELSE "max_time"
    IN  IF Retried(out) /\ ~GiveUp(r.tries, timeUp)
        THEN [f EXCEPT !.pc = "backoff", !.result = Raise(out)]
        ELSE IF hit # NoEntry
             THEN [f EXCEPT !.pc = "done", !.result = Return(hit),
                            !.exhausted = GiveUp(r.tries, timeUp)]
             ELSE [f EXCEPT !.pc = "done", !.result = Raise(out), !.giveup = limit]

\* The except block of _api_request followed by the retrier's decision, for an
\* attempt of request r that raised exc; timeUp: max_time has elapsed.
\* History: giveup is the limit that made the retrier raise a retried error,
\* exhausted tells whether a limit was reached when the cache answered.
AttemptFailed(r, exc, timeUp) ==
    LET hit == CacheLookup(cache, r.key)
        out == IF exc \in {"KeyError", "ValueError"} THEN "ClientError(invalid)"
               ELSE exc
        f == [r EXCEPT !.failed = TRUE, !.expect = stored[r.key]]
        limit == IF ~Retried(out) THEN ""
                 ELSE IF r.tries >= max_tries THEN "max_tries" ELSE "max_time"
    IN  IF hit # NoEntry
        THEN [f EXCEPT !.pc = "done", !.result = Return(hit),
                       !.exhausted = GiveUp(r.tries, timeUp)]
        ELSE IF Retried(out) /\ ~GiveUp(r.tries, timeUp)
             THEN [f EXCEPT !.pc = "backoff", !.result = Raise(out)]
             ELSE [f EXCEPT !.pc = "done", !.result = Raise(out), !.giveup = limit]

\* Mutant: the entry is not keyed by the request, the body replaces every entry.
StoreCache_AnyKey(c, key, body) == [k \in DOMAIN c |-> body]

\* The body stored in the emergency cache on HTTP 200.
StoreCache(c, key, body) == [c EXCEPT ![key] = body]

\* Mutant: the header built for the first request of a call is used again.
_build_authorization_Once(r, tok) ==
    IF r.sends > 0 THEN r.bearer ELSE "Bearer " \o tok

\* Lines 246-248: the Authorization header of a request of call r, built from
\* the token tok the client holds when the request is sent.
_build_authorization(r, tok) == "Bearer " \o tok

\* One request has been sent by the interceptor and answered by resp
\* (history: a_status is the status of the latest answer, 0 without one;
\* bearer is the Authorization header the request carried).
Sent(r, resp) ==
    [r EXCEPT !.sends = @ + 1, !.a_sends = @ + 1, !.a_status = resp.status,
              !.bearer = _build_authorization(r, token)]

\* Mutant: the interceptor tests the status of the re-issued request too.
Reauthenticates_Every(first, resp) == resp.status = HTTP_UNAUTHORIZED

\* Line 236: only the status of the initial response is tested; the response
\* of the re-issued request is returned as it is (line 240).
Reauthenticates(first, resp) == first /\ resp.status = HTTP_UNAUTHORIZED

\* Lines 102-111: the response the interceptor returned reaches _api_request.
HandleResponse(c, r, resp, timeUp) ==
    IF resp.status = HTTP_OK /\ resp.json
    THEN /\ req' = [req EXCEPT ![c] = [r EXCEPT !.pc = "done", !.failed = FALSE,
                                                !.result = Return(resp.body)]]
         /\ cache' = StoreCache(cache, r.key, resp.body)
         /\ cache_timestamp' = [cache_timestamp EXCEPT ![r.key] = now]
         /\ stored' = [stored EXCEPT ![r.key] = resp.body]
    ELSE /\ req' = [req EXCEPT ![c] =
                       AttemptFailed(r, IF resp.status = HTTP_OK THEN "ValueError"
                                        ELSE "ClientError(status)", timeUp)]
         /\ UNCHANGED <<cache, cache_timestamp, stored>>

\* The PATCH requests of the worker are logged with the command they belong to.
LogPatch(c) ==
    IF c = "worker"
    THEN patches' = Append(patches, [n |-> Len(started), item |-> worker.item])
    ELSE UNCHANGED patches

\* History: the command of a climate write has been issued to the API and no
\* poll tick has started since.
LogIssue(c) ==
    IF c = "cmd" /\ climate.hvac = "calling" /\ req[c].sends = 0
    THEN climate' = [climate EXCEPT !.awaiting = TRUE]
    ELSE UNCHANGED climate

\* Line 232: the initial request of the interceptor.
SendInitial(c) ==
    /\ req[c].pc = "send1"
    /\ \E resp \in Responses(req[c].key), timeUp \in BOOLEAN :
          LET r == Sent(req[c], resp)
          IN  IF resp.exc # ""
              THEN /\ req' = [req EXCEPT ![c] = AttemptFailed(r, resp.exc, timeUp)]
                   /\ UNCHANGED <<cache, cache_timestamp, stored>>
              ELSE IF Reauthenticates(TRUE, resp)
              THEN /\ req' = [req EXCEPT ![c] = [r EXCEPT !.pc = "auth", !.a_401 = TRUE]]
                   /\ UNCHANGED <<cache, cache_timestamp, stored>>
              ELSE HandleResponse(c, r, resp, timeUp)
    /\ LogPatch(c)
    /\ LogIssue(c)
    /\ UNCHANGED <<posted, token, now, queue, worker, data, skip_next_update, poll,
                   enqueued, started, idles>>

\* Lines 67-78: what authenticate() raises for an answer of the token
\* endpoint ("": nothing, the token is stored).  response.json() is awaited
\* before the status is looked at: ContentTypeError is a ClientError, and
\* JSONDecodeError is a ValueError that no except clause of authenticate()
\* catches.
AuthOutcome(a) ==
    IF a.exc # "" THEN "AuthenticationError"
    ELSE IF a.json = "notjson" THEN "AuthenticationError"
    ELSE IF a.json = "malformed" THEN "ValueError"
    ELSE IF a.status = HTTP_OK
         THEN IF a.access_token = "" THEN "KeyError" ELSE ""
         ELSE "AuthenticationError"

\* Lines 54-78, called at line 239: authenticate().
authenticate(c) ==
    /\ req[c].pc = "auth"
    /\ \E a \in AuthResponses, timeUp \in BOOLEAN :
          LET r == [req[c] EXCEPT !.auths = @ + 1, !.a_auths = @ + 1,
                                  !.a_auth = AuthLog(a.status, AuthOutcome(a))]
          IN  IF AuthOutcome(a) # ""
              THEN /\ req' = [req EXCEPT ![c] = AttemptFailed(r, AuthOutcome(a), timeUp)]
                   /\ UNCHANGED token
              ELSE /\ req' = [req EXCEPT ![c] = [r EXCEPT !.pc = "send2",
                                                          !.a_authok = TRUE]]
                   /\ token' = a.access_token
    /\ UNCHANGED <<posted, climate, cache, cache_timestamp, now, queue, worker, data,
                   skip_next_update, poll, stored, enqueued, started, patches, idles>>

\* Lines 240-244: the request re-issued after the re-authentication.
SendAgain(c) ==
    /\ req[c].pc = "send2"
    /\ \E resp \in Responses(req[c].key), timeUp \in BOOLEAN :
          LET r == [Sent(req[c], resp) EXCEPT !.resends = @ + 1]
          IN  IF resp.exc # ""
              THEN /\ req' = [req EXCEPT ![c] = AttemptFailed(r, resp.exc, timeUp)]
                   /\ UNCHANGED <<cache, cache_timestamp, stored>>
              ELSE IF Reauthenticates(FALSE, resp)
              THEN /\ req' = [req EXCEPT ![c] = [r EXCEPT !.pc = "auth"]]
                   /\ UNCHANGED <<cache, cache_timestamp, stored>>
              ELSE HandleResponse(c, r, resp, timeUp)
    /\ LogPatch(c)
    /\ UNCHANGED <<posted, climate, token, now, queue, worker, data, skip_next_update, poll,
                   enqueued, started, idles>>

\* Mutant: the retrier does not count the attempt it starts.
Retry_NoCount(c) ==
    /\ req[c].pc = "backoff"
    /\ req' = [req EXCEPT ![c] = [@ EXCEPT !.pc = "send1",
                                           !.result = NoResult, !.failed = FALSE,
                                           !.a_auths = 0, !.a_sends = 0,
                                           !.a_401 = FALSE, !.a_authok = FALSE,
                                           !.a_auth = NoAuth, !.a_status = 0]]
    /\ UNCHANGED <<posted, climate, token, cache, cache_timestamp, now, queue, worker, data,
                   skip_next_update, poll, stored, enqueued, started, patches, idles>>

\* Lines 54-71, run by another task of the client (the poll, the queue worker
\* or a command), at any moment between two steps of this call: a successful
\* authenticate() stores its token.
ConcurrentAuthenticate ==
    /\ \E a \in AuthResponses :
          /\ AuthOutcome(a) = ""
          /\ token' = a.access_token
    /\ UNCHANGED <<posted, climate, cache, cache_timestamp, now, req, queue, worker, data,
                   skip_next_update, poll, stored, enqueued, started, patches, idles>>

\* Lines 80-85: the retrier has slept and calls _api_request again.
Retry(c) ==
    /\ req[c].pc = "backoff"
    /\ req' = [req EXCEPT ![c] = [@ EXCEPT !.pc = "send1", !.tries = @ + 1,
                                           !.result = NoResult, !.failed = FALSE,
                                           !.a_auths = 0, !.a_sends = 0,
                                           !.a_401 = FALSE, !.a_authok = FALSE,
                                           !.a_auth = NoAuth, !.a_status = 0]]
    /\ UNCHANGED <<posted, climate, token, cache, cache_timestamp, now, queue, worker, data,
                   skip_next_update, poll, stored, enqueued, started, patches, idles>>

(***************************************************************************)
(* A caller of the request layer that calls it for any key, one call       *)
(* after the other, and the time that passes between its calls.            *)
(***************************************************************************)
Call ==
    /\ req["cmd"].pc \in {"idle", "done"}
    /\ \E key \in Keys : req' = [req EXCEPT !["cmd"] = NewRequest(key)]
    /\ UNCHANGED <<posted, climate, token, cache, cache_timestamp, now, queue, worker, data,
                   skip_next_update, poll, stored, enqueued, started, patches, idles>>

\* More than CACHE_TTL seconds pass.  The clock is read for the cache
\* timestamps alone, which no code compares with the worker's timer: the two
\* views of time are kept apart.
LongIdle ==
    /\ idles < MaxIdles
    /\ idles' = idles + 1
    /\ now' = now + CACHE_TTL + 1
    /\ UNCHANGED <<posted, climate, token, cache, cache_timestamp, req, queue, worker, data,
                   skip_next_update, poll, stored, enqueued, started, patches>>

(***************************************************************************)
(* entity.py: the snapshot built from the first product.                   *)
(***************************************************************************)
None == NoEntry
Value(v) == [kind |-> "return", value |-> v, exc |-> ""]
Raised(e) == [kind |-> "raise", value |-> None, exc |-> e]

\* const.py: AirMode.OFF and WaterMode.OFF.
AirMode_OFF == "A"
WaterMode_OFF == "L"

\* An attribute of an object: one that __init__ assigned, or one it did not,
\* whose read raises AttributeError.
Assigned(v) == [set |-> TRUE, value |-> v]
Unassigned == [set |-> FALSE, value |-> <<>>]
ReadAttr(a) == IF a.set THEN Value(a.value) ELSE Raised("AttributeError")

ThermostatApiEntity(t) ==
    [id |-> t.ThermostatId, name |-> t.Name, temperature_set |-> t.TemperatureSet]

\* SettingsApiEntity.__init__ (lines 15-24), for the "settings" object of an
\* indicator (present = FALSE: None): it assigns people and antilegio, and no
\* other attribute.
SettingsApiEntity(present, settings) ==
    IF present
    THEN [people |-> settings.people, antilegio |-> settings.antilegio]
    ELSE [people |-> None, antilegio |-> None]

\* IndicatorApiEntity.__init__, for the "indicator" object of a product
\* (present = FALSE: None).  self.thermostats is assigned under "if data:" only.
IndicatorApiEntity(present, ind) ==
    IF present
    THEN [fmist |-> ind.fmist, fmast |-> ind.fmast, cmast |-> ind.cmast,
          cmist |-> ind.cmist, current_air_mode |-> ind.current_air_mode,
          current_water_mode |-> ind.current_water_mode,
          settings |-> SettingsApiEntity(TRUE, ind.settings),
          thermostats |-> Assigned([i \in DOMAIN ind.thermostats |->
                                       ThermostatApiEntity(ind.thermostats[i])])]
    ELSE [fmist |-> 0, fmast |-> 0, cmast |-> 0, cmist |-> 0,
          current_air_mode |-> AirMode_OFF, current_water_mode |-> WaterMode_OFF,
          settings |-> SettingsApiEntity(FALSE, ReportedSettings),
          thermostats |-> Unassigned]

\* (mutant) A snapshot whose is_connected is not the product's isConnected.
DataApiEntity_Inverted(d) ==
    IF d.keys = "all"
    THEN Value([type |-> "entity", is_connected |-> ~d.isConnected, modem |-> d.modem,
                temperature_set |-> d.TemperatureSet,
                indicator |-> IndicatorApiEntity(TRUE, d.indicator),
                week_planning |-> d.week_planning, week_planning2 |-> d.week_planning,
                week_planning3 |-> d.week_planning, week_planning4 |-> d.week_planning])
    ELSE Raised("KeyError")

\* DataApiEntity.__init__: an empty dict is falsy and gives the defaults, a
\* dict lacking an expected key raises KeyError.
DataApiEntity(d) ==
    IF d.keys = "none"
    THEN Value([type |-> "entity", is_connected |-> FALSE, modem |-> "",
                temperature_set |-> 0,
                indicator |-> IndicatorApiEntity(FALSE, Indicator(0)),
                week_planning |-> <<>>, week_planning2 |-> <<>>,
                week_planning3 |-> <<>>, week_planning4 |-> <<>>])
    ELSE IF d.keys = "all"
    THEN Value([type |-> "entity", is_connected |-> d.isConnected, modem |-> d.modem,
                temperature_set |-> d.TemperatureSet,
                indicator |-> IndicatorApiEntity(TRUE, d.indicator),
                week_planning |-> d.week_planning, week_planning2 |-> d.week_planning,
                week_planning3 |-> d.week_planning, week_planning4 |-> d.week_planning])
    ELSE Raised("KeyError")

\* (mutant) fetch_data catches every exception and returns None.
fetch_data_CatchAll(result) ==
    IF result.kind = "raise"
    THEN Value(None)
    ELSE LET body == result.body
         IN  IF body.type = "list" /\ Len(body.items) > 0 /\ body.items[1].type = "dict"
             THEN DataApiEntity(body.items[1])
             ELSE Value(None)

\* fetch_data, from what _api_request gave it.
fetch_data(result) ==
    IF result.kind = "raise"
    THEN IF IsClientError(result.exc) \/ result.exc = "TimeoutError"
         THEN Value(None)
         ELSE Raised(result.exc)
    ELSE LET body == result.body
         IN  IF body.type = "list" /\ Len(body.items) > 0 /\ body.items[1].type = "dict"
             THEN DataApiEntity(body.items[1])
             ELSE Value(None)

(***************************************************************************)
(* api.py: the facade methods around _api_request, from what _api_request  *)
(* gave them, and a caller that calls them one after the other.            *)
(***************************************************************************)
\* Lines 393-401: _send_command logs a ClientError or TimeoutError and raises
\* it again; any other exception passes through it.
_send_command(result) ==
    IF result.kind = "raise" THEN Raised(result.exc) ELSE Value(result.body)

\* Lines 364-374.
reset_filter(result) ==
    IF result.kind = "raise" THEN Raised(result.exc) ELSE Value(result.body)

\* Lines 424-428: only ClientError and TimeoutError are caught.
get_statistics(result) ==
    IF result.kind = "raise"
    THEN IF IsClientError(result.exc) \/ result.exc = "TimeoutError"
         THEN Value(None)
         ELSE Raised(result.exc)
    ELSE Value(result.body)

\* What the facade method of a finished request gives its caller.
FacadeResult(r) ==
    IF r.key = URL_STATISTICS THEN get_statistics(r.result)
    ELSE IF r.key = URL_RESET_FILTER THEN reset_filter(r.result)
    ELSE _send_command(r.result)

\* change_mode, change_week_planning, set_holidays_mode, cancel_holidays_mode,
\* set_frost_protection_mode, set_kwh_prices, change_people, change_antilegio:
\* each one calls _send_command, which calls _api_request at line 389.
SendCommand ==
    /\ req["cmd"].pc \in {"idle", "done"}
    /\ req' = [req EXCEPT !["cmd"] = NewRequest(URL_COMMANDS)]
    /\ UNCHANGED <<posted, climate, token, cache, cache_timestamp, now, queue, worker, data,
                   skip_next_update, poll, stored, enqueued, started, patches, idles>>

\* Line 365.
ResetFilter ==
    /\ req["cmd"].pc \in {"idle", "done"}
    /\ req' = [req EXCEPT !["cmd"] = NewRequest(URL_RESET_FILTER)]
    /\ UNCHANGED <<posted, climate, token, cache, cache_timestamp, now, queue, worker, data,
                   skip_next_update, poll, stored, enqueued, started, patches, idles>>

\* Line 425.
GetStatistics ==
    /\ req["cmd"].pc \in {"idle", "done"}
    /\ req' = [req EXCEPT !["cmd"] = NewRequest(URL_STATISTICS)]
    /\ UNCHANGED <<posted, climate, token, cache, cache_timestamp, now, queue, worker, data,
                   skip_next_update, poll, stored, enqueued, started, patches, idles>>

(***************************************************************************)
(* coordinator.py: _async_update_data.  The host stores the value the call *)
(* returns in coordinator.data, and keeps data when the call raises.       *)
(***************************************************************************)
\* Mutant: a skipped update returns None.
SkippedValue_None(d) == None

\* Line 46: what a skipped update returns.
SkippedValue(d) == IF d # None THEN d ELSE None

\* Mutant: an exception fails the update although a snapshot exists.
UpdateResult_NoKeep(f, d) ==
    IF f.kind = "return"
    THEN IF f.value = None /\ d # None
         THEN [outcome |-> "Preserved", value |-> d]
         ELSE [outcome |-> "Applied", value |-> f.value]
    ELSE [outcome |-> "Failed", value |-> None]

\* Mutant: a fetch that returns None without a snapshot fails the update.
UpdateResult_FailOnNone(f, d) ==
    IF f.kind = "return" /\ f.value # None
    THEN [outcome |-> "Applied", value |-> f.value]
    ELSE IF d # None
         THEN [outcome |-> "Preserved", value |-> d]
         ELSE [outcome |-> "Failed", value |-> None]

\* Mutant: what a fetch returns is published as it is, None included.
UpdateResult_ApplyNone(f, d) ==
    IF f.kind = "return"
    THEN [outcome |-> "Applied", value |-> f.value]
    ELSE IF d # None
         THEN [outcome |-> "Preserved", value |-> d]
         ELSE [outcome |-> "Failed", value |-> None]

\* Mutant: a new snapshot is copied into the existing one field by field, and
\* the copy stops after is_connected.
UpdateResult_Merge(f, d) ==
    IF f.kind = "return"
    THEN IF f.value = None /\ d # None
         THEN [outcome |-> "Preserved", value |-> d]
         ELSE IF f.value # None /\ d # None
         THEN [outcome |-> "Applied",
               value |-> [d EXCEPT !.is_connected = f.value.is_connected]]
         ELSE [outcome |-> "Applied", value |-> f.value]
    ELSE IF d # None
         THEN [outcome |-> "Preserved", value |-> d]
         ELSE [outcome |-> "Failed", value |-> None]

\* Lines 49-60: the end of an update that fetched; f is what fetch_data did.
UpdateResult(f, d) ==
    IF f.kind = "return"
    THEN IF f.value = None /\ d # None
         THEN [outcome |-> "Preserved", value |-> d]
         ELSE [outcome |-> "Applied", value |-> f.value]
    ELSE IF d # None
         THEN [outcome |-> "Preserved", value |-> d]
         ELSE [outcome |-> "Failed", value |-> None]

\* fresh is history: the client had no token when the update called fetch_data;
\* raised is the exception that left fetch_data or the timeout ("": none);
\* after_skip tells that the update before this one was a skipped one.
IdlePoll == [pc |-> "idle", calls |-> 0, outcome |-> "", fetch |-> "", before |-> None,
             value |-> None, fresh |-> FALSE, raised |-> "", after_skip |-> FALSE]

\* What fetch_data did, for the record of the update.
FetchKind(f) ==
    IF f.kind = "raise" THEN "raise" ELSE IF f.value = None THEN "none" ELSE "value"

\* Mutant: the skipped update leaves the flag set.
UpdateSkipped_KeepFlag ==
    /\ poll.pc = "idle"
    /\ skip_next_update
    /\ data' = SkippedValue(data)
    /\ poll' = [pc |-> "idle", calls |-> 1 - poll.calls, outcome |-> "Skipped",
                fetch |-> "", before |-> data, value |-> SkippedValue(data),
                fresh |-> FALSE, raised |-> "",
                after_skip |-> (poll.outcome = "Skipped")]
    /\ climate' = [climate EXCEPT !.awaiting = FALSE]
    /\ UNCHANGED <<posted, token, cache, cache_timestamp, now, req, queue, worker, stored,
                   enqueued, started, patches, idles, skip_next_update>>

\* Lines 43-46: an update, whatever asked for it (the timer or a refresh
\* requested by a service, a button or a verification task), that finds the
\* flag set.
UpdateSkipped ==
    /\ poll.pc = "idle"
    /\ skip_next_update
    /\ skip_next_update' = FALSE
    /\ data' = SkippedValue(data)
    /\ poll' = [pc |-> "idle", calls |-> 1 - poll.calls, outcome |-> "Skipped",
                fetch |-> "", before |-> data, value |-> SkippedValue(data),
                fresh |-> FALSE, raised |-> "",
                after_skip |-> (poll.outcome = "Skipped")]
    /\ climate' = [climate EXCEPT !.awaiting = FALSE]
    /\ UNCHANGED <<posted, token, cache, cache_timestamp, now, req, queue, worker, stored,
                   enqueued, started, patches, idles>>

\* Lines 47-49: the update calls fetch_data, which calls _api_request.
UpdateFetch ==
    /\ poll.pc = "idle"
    /\ ~skip_next_update
    /\ poll' = [IdlePoll EXCEPT !.pc = "fetching", !.calls = 1 - poll.calls,
                                !.fresh = (token = ""),
                                !.after_skip = (poll.outcome = "Skipped")]
    /\ req' = [req EXCEPT !["poll"] = NewRequest(URL_PRODUCTS)]
    /\ climate' = [climate EXCEPT !.awaiting = FALSE]
    /\ UNCHANGED <<posted, token, cache, cache_timestamp, now, queue, worker, data,
                   skip_next_update, stored, enqueued, started, patches, idles>>

Finish(f) ==
    LET u == UpdateResult(f, data)
    IN  /\ poll' = [poll EXCEPT !.pc = "idle", !.outcome = u.outcome,
                                !.fetch = FetchKind(f), !.before = data,
                                !.value = u.value, !.raised = f.exc]
        /\ data' = IF u.outcome = "Failed" THEN data ELSE u.value
        /\ req' = [req EXCEPT !["poll"] = IdleRequest]
        /\ UNCHANGED <<posted, climate, token, cache, cache_timestamp, now, queue, worker,
                       skip_next_update, stored, enqueued, started, patches, idles>>

\* Lines 49-60, fetch_data has returned or raised.
UpdateFinish ==
    /\ poll.pc = "fetching"
    /\ req["poll"].pc = "done"
    /\ Finish(fetch_data(req["poll"].result))

\* Line 48: the 10 s timeout cancels the fetch at one of its awaits and the
\* async with block raises TimeoutError.
UpdateTimeout ==
    /\ poll.pc = "fetching"
    /\ req["poll"].pc # "done"
    /\ Finish(Raised("TimeoutError"))

\* A writer asks for the next update to be skipped (climate.py).
SetSkip ==
    /\ ~skip_next_update
    /\ skip_next_update' = TRUE
    /\ UNCHANGED <<posted, climate, token, cache, cache_timestamp, now, req, queue, worker, data,
                   poll, stored, enqueued, started, patches, idles>>

(***************************************************************************)
(* api.py: the temperature queue and its worker.                           *)
(***************************************************************************)
Item(m, i, n, t) ==
    [modem |-> m, thermostat_id |-> i, thermostat_name |-> n, temperature |-> t]

\* The command items callers enqueue: valid ones and ones with a falsy field.
Items ==
    {Item("m1", 1, "T", 20), Item("m1", 1, "T", 21), Item("", 1, "T", 20),
     Item("m1", 0, "T", 20), Item("m1", 1, "", 20), Item("m1", 1, "T", 0)}

\* Mutant: the temperature is not tested, so that 0 degrees is sent.
Truthy_NoTemperature(item) ==
    /\ item.modem # ""
    /\ item.thermostat_id # 0
    /\ item.thermostat_name # ""

\* Line 176: modem and thermostat_id and thermostat_name and temperature.
Truthy(item) ==
    /\ item.modem # ""
    /\ item.thermostat_id # 0
    /\ item.thermostat_name # ""
    /\ item.temperature # 0

\* Mutants: the newest item is taken first; the item taken stays queued.
QueueGet_Lifo(q) == [item |-> q[Len(q)], rest |-> SubSeq(q, 1, Len(q) - 1)]
QueueGet_Peek(q) == [item |-> Head(q), rest |-> q]

\* Mutant: the queue keeps the newest item only.
QueuePut_Newest(q, item) == <<item>>

\* asyncio.Queue: put appends, get takes the oldest item.
QueuePut(q, item) == Append(q, item)
QueueGet(q) == [item |-> Head(q), rest |-> Tail(q)]

\* Lines 183-193.
set_target_temperature ==
    /\ Len(enqueued) < MaxEnq
    /\ \E item \in Items :
          /\ queue' = QueuePut(queue, item)
          /\ enqueued' = Append(enqueued, item)
    /\ UNCHANGED <<posted, climate, token, cache, cache_timestamp, now, req, worker, data,
                   skip_next_update, poll, stored, started, patches, idles>>

\* Lines 170-179 and 181: the worker takes an item; a valid one is handed to
\* change_temperature, which calls _api_request; another one is dropped.
WorkerGet ==
    /\ worker.pc = "get"
    /\ queue # <<>>
    /\ LET g == QueueGet(queue)
           w == [worker EXCEPT !.item = g.item, !.elapsed = 0, !.gap = worker.elapsed,
                               !.after_valid = worker.elapsed >= 0 /\ Truthy(worker.item)]
       IN  /\ queue' = g.rest
           /\ IF Truthy(g.item)
              THEN /\ worker' = [w EXCEPT !.pc = "request"]
                   /\ started' = Append(started, g.item)
                   /\ req' = [req EXCEPT !["worker"] =
                                 NewRequest(ThermostatsUrl(g.item.modem))]
              ELSE /\ worker' = [w EXCEPT !.pc = "get"]
                   /\ UNCHANGED <<started, req>>
    /\ UNCHANGED <<posted, climate, token, cache, cache_timestamp, now, data, skip_next_update, poll,
                   stored, enqueued, patches, idles>>

\* Mutant: the pause after a command is one second short.
SleepTimer_Short == REQUEST_DELAY - 1

\* Line 180: asyncio.sleep(REQUEST_DELAY) arms a timer of that many seconds.
SleepTimer == REQUEST_DELAY

\* Lines 177-180: change_temperature returns and the worker sleeps, or it
\* raises and the exception leaves the worker's loop.
WorkerResume ==
    /\ worker.pc = "request"
    /\ req["worker"].pc = "done"
    /\ worker' = IF req["worker"].result.kind = "return"
                 THEN [worker EXCEPT !.pc = "sleep", !.sleep = SleepTimer]
                 ELSE [worker EXCEPT !.pc = "dead"]
    /\ req' = [req EXCEPT !["worker"] = IdleRequest]
    /\ UNCHANGED <<posted, climate, token, cache, cache_timestamp, now, queue, data, skip_next_update,
                   poll, stored, enqueued, started, patches, idles>>

\* Lines 180-181: the sleep is over.
WorkerWake ==
    /\ worker.pc = "sleep"
    /\ worker.sleep = 0
    /\ worker' = [worker EXCEPT !.pc = "get"]
    /\ UNCHANGED <<posted, climate, token, cache, cache_timestamp, now, req, queue, data,
                   skip_next_update, poll, stored, enqueued, started, patches, idles>>

\* One second passes for the worker: its timer runs down, and the time since
\* it began its latest item grows (counted up to REQUEST_DELAY).
Tick ==
    /\ worker' = [worker EXCEPT
                     !.sleep = IF @ > 0 THEN @ - 1 ELSE 0,
                     !.elapsed = IF @ < 0 \/ @ >= REQUEST_DELAY THEN @ ELSE @ + 1]
    /\ UNCHANGED <<posted, climate, token, cache, cache_timestamp, now, req, queue, data,
                   skip_next_update, poll, stored, enqueued, started, patches, idles>>

(***************************************************************************)
(* climate.py: the climate entity of one thermostat, its mode command and  *)
(* the task that verifies the command after a delay.                       *)
(***************************************************************************)
\* _pending_mode_change: the command it belongs to (0: None) and its mode.
NoPending == [cmd |-> 0, expected_mode |-> ""]

\* The entity after __init__ (lines 65-95).  tasks: the state of the task each
\* command created; retry_mode_task: the command whose task
\* self._retry_mode_task refers to (0: None).
\* _pending_temperature_change: the command it belongs to (0: None), the
\* setpoint sent, the target shown and the mode the offset was decided on.
NoPendingTemperature ==
    [cmd |-> 0, target |-> 0, display_target |-> 0, effective_mode |-> ""]

\* The temperature side, in the same way: temps counts the temperature
\* commands, ttasks and retry_task are their verification tasks; effective is
\* _effective_air_mode ("": None) and target is _attr_target_temperature in
\* tenths of a degree (0: not set yet).  resends counts, for each command,
\* the times a verification task sent it again, and resent is the mode of the
\* latest change_mode a verification task called.
NewClimate ==
    [hvac |-> "idle", arg |-> "", cmds |-> 0, hvac_mode |-> "off",
     pending |-> NoPending, retry_mode_task |-> 0,
     tasks |-> [n \in 1..MaxCmds |-> "none"], awaiting |-> FALSE,
     temps |-> 0, effective |-> "", target |-> 0,
     pending_temperature |-> NoPendingTemperature, retry_task |-> 0,
     ttasks |-> [n \in 1..MaxCmds |-> "none"],
     resends |-> [k \in {"mode", "temperature"} |-> [n \in 1..MaxCmds |-> 0]],
     resent |-> ""]

HvacModes == {"off", "heat", "cool", "auto"}

\* Lines 545-550: hvac_to_air_mode.get(hvac_mode), "" for None.
AirModeOf(hvac_mode) ==
    IF hvac_mode = "off" THEN AirMode_OFF
    ELSE IF hvac_mode = "heat" THEN "B"
    ELSE IF hvac_mode = "cool" THEN "F"
    ELSE ""

\* Lines 543-556: a mode command arrives; a mode without air mode returns at
\* once, another one calls change_mode, which calls _api_request.
async_set_hvac_mode ==
    /\ climate.hvac = "idle"
    /\ climate.cmds + climate.temps < MaxCmds
    /\ req["cmd"].pc \in {"idle", "done"}
    /\ \E m \in HvacModes :
          IF AirModeOf(m) = ""
          THEN UNCHANGED <<climate, req>>
          ELSE /\ climate' = [climate EXCEPT !.hvac = "calling", !.arg = m,
                                             !.cmds = @ + 1]
               /\ req' = [req EXCEPT !["cmd"] = NewRequest(URL_COMMANDS)]
    /\ UNCHANGED <<posted, token, cache, cache_timestamp, now, queue, worker, data,
                   skip_next_update, poll, stored, enqueued, started, patches, idles>>

\* task.cancel() on a task that is not done.
Cancelled(tasks, n) ==
    IF n # 0 /\ tasks[n] \notin {"none", "done", "cancelled"}
    THEN [tasks EXCEPT ![n] = "cancelled"]
    ELSE tasks

\* Lines 556-575: change_mode has returned or raised.  When it raised, the
\* exception leaves the handler and nothing below line 556 runs.
SetHvacModeResume ==
    /\ climate.hvac = "calling"
    /\ req["cmd"].pc = "done"
    /\ IF FacadeResult(req["cmd"]).kind = "raise"
       THEN /\ climate' = [climate EXCEPT !.hvac = "idle"]
            /\ UNCHANGED skip_next_update
       ELSE /\ climate' =
                  [climate EXCEPT
                      !.hvac = "idle",
                      !.hvac_mode = climate.arg,
                      !.pending = [cmd |-> climate.cmds,
                                   expected_mode |-> AirModeOf(climate.arg)],
                      !.retry_mode_task = climate.cmds,
                      !.tasks = [Cancelled(climate.tasks, climate.retry_mode_task)
                                    EXCEPT ![climate.cmds] = "sleeping"]]
            /\ skip_next_update' = TRUE
    /\ req' = [req EXCEPT !["cmd"] = IdleRequest]
    /\ UNCHANGED <<posted, token, cache, cache_timestamp, now, queue, worker, data, poll,
                   stored, enqueued, started, patches, idles>>

\* Lines 579-583: the 60 s of a verification task are over and its delayed
\* action begins (the verification of lines 585-623).
VerifyModeWake(n) ==
    /\ climate.tasks[n] = "sleeping"
    /\ climate' = [climate EXCEPT
                      !.tasks[n] = IF climate.pending = NoPending THEN "done"
                                   ELSE "verifying"]
    /\ UNCHANGED <<posted, token, cache, cache_timestamp, now, req, queue, worker, data,
                   skip_next_update, poll, stored, enqueued, started, patches, idles>>

(***************************************************************************)
(* climate.py: the target temperature of the entity, the ECO offset on the *)
(* way to the device and back, and the task that verifies the command.     *)
(* Targets and displayed temperatures are in tenths of a degree, setpoints *)
(* of the device in degrees.                                               *)
(***************************************************************************)
ECO_MODE_TEMPERATURE_OFFSET == 2
HEAT_ECO == "C"

\* What the device may report: connected or not, the setpoint of its
\* thermostat, its air mode and the program of the current planning slot.
Device(conn, tset, mode, slot) ==
    [Product(conn, tset) EXCEPT !.indicator.current_air_mode = mode,
                                !.week_planning = <<slot>>]

DeviceStates ==
    {Device(TRUE, 20, "B", "00B"), Device(TRUE, 22, "C", "00B"),
     Device(TRUE, 22, "D", "00C"), Device(FALSE, 20, "B", "00B")}

\* The snapshots the coordinator builds of them.
Snapshots == {DataApiEntity(p).value : p \in DeviceStates}

\* The targets a set_temperature service call may carry (a float).
Targets == {200, 205}

\* Lines 114-137: the hour character and the day of the wall clock; the model
\* stays in the first hour of a Monday.
SlotNow == [hour |-> "0", day |-> "0"]

\* slot_str[0], slot_str[1] and slot_str[-1] of a planning entry.
SlotParts(slot_str) ==
    CASE slot_str = "00B" -> [hour |-> "0", day |-> "0", mode |-> "B"]
      [] slot_str = "00C" -> [hour |-> "0", day |-> "0", mode |-> "C"]
      [] OTHER -> [hour |-> "", day |-> "", mode |-> ""]

\* Lines 140-171: the first entry of the planning for the current hour and
\* day, "" for None.
_get_program_at_slot(planning) ==
    LET hits == {i \in DOMAIN planning :
                    /\ SlotParts(planning[i]).hour = SlotNow.hour
                    /\ SlotParts(planning[i]).day = SlotNow.day}
    IN  IF hits = {} THEN ""
        ELSE planning[CHOOSE i \in hits : \A j \in hits : i <= j]

\* Lines 186-258: the mode a program mode stands for at the current slot, ""
\* for None (no snapshot, no program mode, no slot, or an unknown program).
_get_active_program_mode(d, air_mode) ==
    IF d = None THEN ""
    ELSE IF air_mode \in {"D", "E"}
    THEN LET program_char ==
                 SlotParts(_get_program_at_slot(
                     IF air_mode = "D" THEN d.week_planning ELSE d.week_planning2)).mode
         IN  IF program_char = "0" THEN AirMode_OFF
             ELSE IF program_char = "B" THEN "B"
             ELSE IF program_char = "C" THEN HEAT_ECO
             ELSE ""
    ELSE IF air_mode \in {"H", "I"}
    THEN LET program_char ==
                 SlotParts(_get_program_at_slot(
                     IF air_mode = "H" THEN d.week_planning3 ELSE d.week_planning4)).mode
         IN  IF program_char = "0" THEN AirMode_OFF
             ELSE IF program_char = "B" THEN "F"
             ELSE ""
    ELSE ""

\* Python's "a or b" on modes, None being "".
Or(a, b) == IF a # "" THEN a ELSE b

\* Lines 344-356: the thermostat of this id in the snapshot, as a set (empty:
\* None).
_get_thermostat_by_id(d, target_id) ==
    IF d = None THEN {}
    ELSE LET ts == d.indicator.thermostats.value
             hits == {i \in DOMAIN ts : ts[i].id = target_id}
         IN  IF hits = {} THEN {}
             ELSE {ts[CHOOSE i \in hits : \A j \in hits : i <= j]}

\* Lines 311-342: without a snapshot, without the thermostat or with the
\* device disconnected the attributes below line 322 keep their values.
_async_update_attrs(c, d) ==
    IF d = None \/ _get_thermostat_by_id(d, 1) = {} \/ ~d.is_connected
    THEN c
    ELSE LET thermostat == CHOOSE t \in _get_thermostat_by_id(d, 1) : TRUE
             air_mode == d.indicator.current_air_mode
             effective == Or(_get_active_program_mode(d, air_mode), air_mode)
             temperature_offset ==
                 IF effective = HEAT_ECO THEN ECO_MODE_TEMPERATURE_OFFSET ELSE 0
         IN  [c EXCEPT !.effective = effective,
                       !.target = 10 * (thermostat.temperature_set - temperature_offset)]

\* The coordinator has finished an update with a snapshot of the device (the
\* update itself is SpecPoll's part) and calls the listeners: lines 305-309.
\* The entity is created from the first snapshot (lines 42-56) and listens
\* from then on, so the first snapshot does not reach _async_update_attrs.
_handle_coordinator_update ==
    /\ \E d \in Snapshots :
          /\ data' = d
          /\ climate' = IF data = None THEN climate
                        ELSE _async_update_attrs(climate, d)
    /\ UNCHANGED <<posted, token, cache, cache_timestamp, now, req, queue, worker,
                   skip_next_update, poll, stored, enqueued, started, patches, idles>>

\* int() of a temperature in tenths: the integer part, in degrees.
int(tenths) == IF tenths >= 0 THEN tenths \div 10 ELSE -((-tenths) \div 10)

\* Lines 428-435: the setpoint for the device.
pac_target(c, d, target_temperature) ==
    LET air_mode == d.indicator.current_air_mode
        effective_mode == Or(c.effective, air_mode)
    IN  IF effective_mode = HEAT_ECO
        THEN int(target_temperature + 10 * ECO_MODE_TEMPERATURE_OFFSET)
        ELSE int(target_temperature)

\* Lines 422-466: a temperature command.  The put on the unbounded queue does
\* not suspend, so the handler runs in one step.  Without a snapshot line 428
\* raises AttributeError and nothing is changed.
async_set_temperature ==
    /\ climate.cmds + climate.temps < MaxCmds
    /\ data # None
    /\ \E target_temperature \in Targets :
          LET n == climate.temps + 1
              pac == pac_target(climate, data, target_temperature)
              item == Item("m1", 1, "T", pac)
          IN  /\ queue' = QueuePut(queue, item)
              /\ enqueued' = Append(enqueued, item)
              /\ climate' =
                    [climate EXCEPT
                        !.temps = n,
                        !.target = target_temperature,
                        !.pending_temperature =
                            [cmd |-> n, target |-> pac,
                             display_target |-> target_temperature,
                             effective_mode |->
                                 Or(climate.effective, data.indicator.current_air_mode)],
                        !.retry_task = n,
                        !.ttasks = [Cancelled(climate.ttasks, climate.retry_task)
                                       EXCEPT ![n] = "sleeping"]]
    /\ skip_next_update' = TRUE
    /\ UNCHANGED <<posted, token, cache, cache_timestamp, now, req, worker, data, poll,
                   stored, started, patches, idles>>

\* Lines 470-474: the 60 s of the task are over; without a pending change it
\* returns.
VerifyTemperatureWake(n) ==
    /\ climate.ttasks[n] = "sleeping"
    /\ climate' = [climate EXCEPT
                      !.ttasks[n] = IF climate.pending_temperature = NoPendingTemperature
                                    THEN "done" ELSE "verifying"]
    /\ UNCHANGED <<posted, token, cache, cache_timestamp, now, req, queue, worker, data,
                   skip_next_update, poll, stored, enqueued, started, patches, idles>>

\* Line 508.
Differs(current_target, expected_target) ==
    \/ current_target - expected_target > 0
    \/ expected_target - current_target > 0

\* Lines 476-533: the refresh was asked for and the 2 s are over.  Without a
\* snapshot or without the thermostat the pending change is dropped; a
\* setpoint that differs from the expected one is put on the queue again (the
\* put does not suspend); one that does not differ takes the task to line 536.
\* Reading a pending change that is None raises TypeError, which line 540
\* catches.
VerifyTemperatureCompare(n) ==
    /\ climate.ttasks[n] = "verifying"
    /\ LET pending == climate.pending_temperature
           found == _get_thermostat_by_id(data, 1)
           dropped == [climate EXCEPT !.ttasks[n] = "done",
                                      !.pending_temperature = NoPendingTemperature]
       IN  IF data = None \/ pending = NoPendingTemperature \/ found = {}
           THEN /\ climate' = dropped
                /\ UNCHANGED <<queue, enqueued>>
           ELSE LET current_target == (CHOOSE t \in found : TRUE).temperature_set
                    item == Item("m1", 1, "T", pending.target)
                IN  IF Differs(current_target, pending.target)
                    THEN /\ queue' = QueuePut(queue, item)
                         /\ enqueued' = Append(enqueued, item)
                         /\ climate' = [climate EXCEPT
                                           !.ttasks[n] = "resent",
                                           !.resends["temperature"][pending.cmd] = @ + 1]
                    ELSE /\ climate' = dropped
                         /\ UNCHANGED <<queue, enqueued>>
    /\ UNCHANGED <<posted, token, cache, cache_timestamp, now, req, worker, data,
                   skip_next_update, poll, stored, started, patches, idles>>

\* Mutant: after the command was sent again the task verifies once more.
VerifyTemperatureFinish_Again(n) ==
    /\ climate.ttasks[n] = "resent"
    /\ climate' = [climate EXCEPT !.ttasks[n] = "verifying"]
    /\ UNCHANGED <<posted, token, cache, cache_timestamp, now, req, queue, worker, data,
                   skip_next_update, poll, stored, enqueued, started, patches, idles>>

\* Lines 524-536: after the command was sent again, 2 s and a second refresh;
\* then the pending change is cleared and the task ends.
VerifyTemperatureFinish(n) ==
    /\ climate.ttasks[n] = "resent"
    /\ climate' = [climate EXCEPT !.ttasks[n] = "done",
                                  !.pending_temperature = NoPendingTemperature]
    /\ UNCHANGED <<posted, token, cache, cache_timestamp, now, req, queue, worker, data,
                   skip_next_update, poll, stored, enqueued, started, patches, idles>>

\* Lines 585-611: the same for the mode.  An air mode that is not the expected
\* one makes the task call change_mode, which calls _api_request; the task
\* waits for it.
VerifyModeCompare(n) ==
    /\ climate.tasks[n] = "verifying"
    /\ LET pending == climate.pending
           dropped == [climate EXCEPT !.tasks[n] = "done", !.pending = NoPending]
       IN  IF data = None \/ pending = NoPending
           THEN /\ climate' = dropped
                /\ UNCHANGED req
           ELSE IF data.indicator.current_air_mode # pending.expected_mode
           THEN /\ climate' = [climate EXCEPT
                                  !.tasks[n] = "resending",
                                  !.resends["mode"][pending.cmd] = @ + 1,
                                  !.resent = pending.expected_mode]
                /\ req' = [req EXCEPT !["verify"] = NewRequest(URL_COMMANDS)]
           ELSE /\ climate' = dropped
                /\ UNCHANGED req
    /\ UNCHANGED <<posted, token, cache, cache_timestamp, now, queue, worker, data,
                   skip_next_update, poll, stored, enqueued, started, patches, idles>>

\* Lines 609-628: change_mode has returned or raised; an exception is caught at
\* line 627, which clears the pending change.
VerifyModeResume(n) ==
    /\ climate.tasks[n] = "resending"
    /\ req["verify"].pc = "done"
    /\ climate' =
          IF FacadeResult(req["verify"]).kind = "raise"
          THEN [climate EXCEPT !.tasks[n] = "done", !.pending = NoPending]
          ELSE [climate EXCEPT !.tasks[n] = "resent"]
    /\ req' = [req EXCEPT !["verify"] = IdleRequest]
    /\ UNCHANGED <<posted, token, cache, cache_timestamp, now, queue, worker, data,
                   skip_next_update, poll, stored, enqueued, started, patches, idles>>

\* Lines 613-623: 2 s and a second refresh, then the pending change is
\* cleared and the task ends.
VerifyModeFinish(n) ==
    /\ climate.tasks[n] = "resent"
    /\ climate' = [climate EXCEPT !.tasks[n] = "done", !.pending = NoPending]
    /\ UNCHANGED <<posted, token, cache, cache_timestamp, now, req, queue, worker, data,
                   skip_next_update, poll, stored, enqueued, started, patches, idles>>

NoItem == [modem |-> "", thermostat_id |-> 0, thermostat_name |-> "", temperature |-> 0]

Init ==
    /\ token = ""
    /\ cache = [k \in CacheKeys |-> NoEntry]
    /\ cache_timestamp = [k \in CacheKeys |-> 0]
    /\ now = 0
    /\ req = [c \in Callers |-> IdleRequest]
    /\ queue = <<>>
    /\ worker = [pc |-> "get", item |-> NoItem, sleep |-> 0, elapsed |-> -1,
                 gap |-> -1, after_valid |-> FALSE, owner |-> "entry", kept |-> 0]
    /\ data = NoEntry
    /\ skip_next_update = FALSE
    /\ poll = IdlePoll
    /\ stored = [k \in CacheKeys |-> NoEntry]
    /\ enqueued = <<>>
    /\ started = <<>>
    /\ patches = <<>>
    /\ idles = 0
    /\ climate = NewClimate
    /\ posted = <<>>

NextRequest ==
    \/ Call
    \/ SendInitial("cmd")
    \/ authenticate("cmd")
    \/ SendAgain("cmd")
    \/ Retry("cmd")
    \/ LongIdle

SpecRequest == Init /\ [][NextRequest]_vars

\* The request layer of one call while other tasks authenticate.
NextAuth ==
    \/ Call
    \/ SendInitial("cmd")
    \/ authenticate("cmd")
    \/ SendAgain("cmd")
    \/ Retry("cmd")
    \/ ConcurrentAuthenticate

SpecAuth == Init /\ [][NextAuth]_vars

NextFacade ==
    \/ SendCommand
    \/ ResetFilter
    \/ GetStatistics
    \/ SendInitial("cmd")
    \/ authenticate("cmd")
    \/ SendAgain("cmd")
    \/ Retry("cmd")

SpecFacade == Init /\ [][NextFacade]_vars

(***************************************************************************)
(* api.py: the JSON-RPC command each facade method builds.  Prices are     *)
(* counted in 1/10000 EUR, so that a fourth decimal can be cut or rounded. *)
(***************************************************************************)
\* Lines 378-383: json_payload.
JsonRpc(method, uid, param) ==
    [jsonrpc |-> "2.0", method |-> method, id |-> uid, params |-> <<param>>]

AIR_MODE == 1
HOT_WATER == 2

\* Lines 139-143.
change_mode(mode, uid) == JsonRpc("changeMode", uid, mode)

\* Lines 250-254.
change_people(people) == JsonRpc("changePeople", 0, people)

\* Lines 255-258.
change_antilegio(antilegio) == JsonRpc("antilegio", 0, antilegio)

\* Lines 260-267: f"changePlanningMode{mode}".
change_week_planning(planning_str, mode) ==
    JsonRpc("changePlanningMode" \o mode, 1, planning_str)

\* (mutant) The two dates in the other order.
set_holidays_mode_EndFirst(start_date, end_date) ==
    JsonRpc("changeMode", 1, "W" \o end_date \o start_date)

\* Lines 269-292: f"W{start_date}{end_date}".
set_holidays_mode(start_date, end_date) ==
    JsonRpc("changeMode", 1, "W" \o start_date \o end_date)

\* Lines 294-305.
cancel_holidays_mode == JsonRpc("changeMode", 1, "W00010101000000Z00010101000000Z")

\* Lines 340-359: f"W{start_date}00000000000000Z".
set_frost_protection_mode(start_date) ==
    JsonRpc("changeMode", 1, "W" \o start_date \o "00000000000000Z")

\* (mutant) round(kwh * 1000): the nearest integer, a half going to the even
\* one.
milliemes_Rounded(kwh) ==
    LET f == kwh \div 10
        r == kwh % 10
    IN  IF r > 5 \/ (r = 5 /\ f % 2 = 1) THEN f + 1 ELSE f

\* (mutant) math.floor(kwh * 1000): the integer below.
milliemes_Floor(kwh) == kwh \div 10

\* Lines 322-323: int(kwh * 1000) cuts the fraction off, towards zero.  For
\* the prices of at most four decimals below 1 EUR/kWh the double product has
\* the integer part of the decimal one.
milliemes(kwh) == IF kwh >= 0 THEN kwh \div 10 ELSE -((-kwh) \div 10)

\* Lines 322-338: f"P{pleine_milliemes}C{creuse_milliemes}".
set_kwh_prices(kwh_pleine, kwh_creuse) ==
    JsonRpc("prixkwh", 1,
            "P" \o ToString(milliemes(kwh_pleine)) \o "C"
                \o ToString(milliemes(kwh_creuse)))

\* The inputs of the facade methods.
Dates == {"20251220000000Z", "20260105000000Z"}
Prices == {-1897, 0, 1423, 1500, 1897, 9990}
Plannings == {"00B"}
PlanningModes == {"A", "B", "C"}
AirModes == {AirMode_OFF, "B"}
WaterModes == {WaterMode_OFF, "M"}

\* One call of a facade method: its name, its arguments and the command it
\* hands to _send_command.
Post(call, args, command) ==
    /\ Len(posted) < MaxPosted
    /\ posted' = Append(posted, [call |-> call, args |-> args, command |-> command])
    /\ UNCHANGED <<token, cache, cache_timestamp, now, req, queue, worker, data,
                   skip_next_update, poll, stored, enqueued, started, patches, idles,
                   climate>>

\* select.py lines 182 and 279, climate.py lines 555 and 609.
ChangeMode ==
    \/ \E m \in AirModes : Post("change_mode", <<m>>, change_mode(m, AIR_MODE))
    \/ \E m \in WaterModes : Post("change_mode", <<m>>, change_mode(m, HOT_WATER))

\* select.py line 384.
ChangePeople == Post("change_people", <<"2">>, change_people("2"))

\* select.py line 495.
ChangeAntilegio == Post("change_antilegio", <<"1">>, change_antilegio("1"))

\* __init__.py lines 160-175: the service takes any string as mode.
async_set_week_planning ==
    \E pl \in Plannings, mode \in PlanningModes :
        Post("change_week_planning", <<pl, mode>>, change_week_planning(pl, mode))

\* __init__.py lines 191-288.
async_set_holidays ==
    \E S \in Dates, E \in Dates :
        Post("set_holidays_mode", <<S, E>>, set_holidays_mode(S, E))

\* __init__.py lines 306-318.
async_cancel_holidays == Post("cancel_holidays_mode", <<>>, cancel_holidays_mode)

\* __init__.py lines 333-388.
async_set_frost_protection ==
    \E S \in Dates :
        Post("set_frost_protection_mode", <<S>>, set_frost_protection_mode(S))

\* number.py lines 107-115.
_set_kwh_prices ==
    \E kwh_pleine \in Prices, kwh_creuse \in Prices :
        Post("set_kwh_prices", <<kwh_pleine, kwh_creuse>>,
             set_kwh_prices(kwh_pleine, kwh_creuse))

NextCommands ==
    \/ ChangeMode
    \/ ChangePeople
    \/ ChangeAntilegio
    \/ async_set_week_planning
    \/ async_set_holidays
    \/ async_cancel_holidays
    \/ async_set_frost_protection
    \/ _set_kwh_prices

SpecCommands == Init /\ [][NextCommands]_vars

(***************************************************************************)
(* number.py: the two kWh price entities.  Each one sends, 2 s after the   *)
(* last value it was given, both prices: the new one and the other one as  *)
(* _get_settings_value finds it.  Prices are in 1/10000 EUR.               *)
(***************************************************************************)
DEFAULT_PRICE_CREUSE == 1500
DEFAULT_PRICE_PLEINE == 2000

\* Lines 75-85: getattr(settings, attribute, None) is None for an attribute
\* the settings object does not have.
_get_settings_value(d, attribute, default) ==
    IF d # None /\ attribute \in DOMAIN d.indicator.settings
                /\ d.indicator.settings[attribute] # None
    THEN d.indicator.settings[attribute]
    ELSE default

\* Lines 107-115: without a snapshot or without its modem nothing is sent.
SendPrices(entity, kwh_pleine, kwh_creuse) ==
    IF data = None \/ data.modem = ""
    THEN UNCHANGED vars
    ELSE Post(entity, <<kwh_pleine, kwh_creuse>>, set_kwh_prices(kwh_pleine, kwh_creuse))

\* Lines 94-97 and 143-146: the debounced update of the off-peak price.
AldesKwhCreuseNumber_send_price_update ==
    \E value \in Prices :
        SendPrices("AldesKwhCreuseNumber",
                   _get_settings_value(data, "kwh_pleine", DEFAULT_PRICE_PLEINE), value)

\* Lines 94-97 and 172-175: the debounced update of the peak price.
AldesKwhPleineNumber_send_price_update ==
    \E value \in Prices :
        SendPrices("AldesKwhPleineNumber", value,
                   _get_settings_value(data, "kwh_creuse", DEFAULT_PRICE_CREUSE))

NextNumber ==
    \/ _handle_coordinator_update
    \/ AldesKwhCreuseNumber_send_price_update
    \/ AldesKwhPleineNumber_send_price_update

\* The price entities with the snapshots the coordinator publishes.
SpecNumber == Init /\ [][NextNumber]_vars

(***************************************************************************)
(* __init__.py: the teardown of the config entry.  The client, and with it *)
(* the worker task that AldesApi.__init__ created (api.py line 52), belongs *)
(* to the coordinator stored in hass.data.  worker.owner tells whether the *)
(* entry still holds the client, worker.kept is the number of items that    *)
(* had been put on the queue when it let go of it.                          *)
(***************************************************************************)
\* Lines 64-69 (and 72-76, the reload, whose first half this is): the
\* platforms are unloaded and the coordinator is popped from hass.data.  No
\* statement touches the client's _temperature_task or its queue.
async_unload_entry ==
    /\ worker.owner = "entry"
    /\ worker' = [worker EXCEPT !.owner = "none", !.kept = Len(enqueued)]
    /\ UNCHANGED <<posted, climate, token, cache, cache_timestamp, now, req, queue, data,
                   skip_next_update, poll, stored, enqueued, started, patches, idles>>

NextTeardown ==
    \/ set_target_temperature
    \/ WorkerGet
    \/ SendInitial("worker")
    \/ WorkerResume
    \/ WorkerWake
    \/ Tick
    \/ async_unload_entry

\* The queue and its worker with the teardown of the entry; of the worker's
\* request only the first send is taken.
SpecTeardown == Init /\ [][NextTeardown]_vars

NextClimate ==
    \/ async_set_hvac_mode
    \/ SendInitial("cmd")
    \/ authenticate("cmd")
    \/ SendAgain("cmd")
    \/ Retry("cmd")
    \/ SetHvacModeResume
    \/ \E n \in 1..MaxCmds : VerifyModeWake(n)
    \/ UpdateSkipped
    \/ UpdateFetch
    \/ UpdateTimeout

\* The climate entity with the coordinator's ticks; of a tick's fetch only the
\* start and the timeout are taken, what the fetch returns is SpecPoll's part.
SpecClimate == Init /\ [][NextClimate]_vars

NextVerify ==
    \/ _handle_coordinator_update
    \/ async_set_temperature
    \/ \E n \in 1..MaxCmds : VerifyTemperatureWake(n)
    \/ \E n \in 1..MaxCmds : VerifyTemperatureCompare(n)
    \/ \E n \in 1..MaxCmds : VerifyTemperatureFinish(n)
    \/ async_set_hvac_mode
    \/ SendInitial("cmd")
    \/ SetHvacModeResume
    \/ \E n \in 1..MaxCmds : VerifyModeWake(n)
    \/ \E n \in 1..MaxCmds : VerifyModeCompare(n)
    \/ SendInitial("verify")
    \/ \E n \in 1..MaxCmds : VerifyModeResume(n)
    \/ \E n \in 1..MaxCmds : VerifyModeFinish(n)

\* The climate entity, its two commands and their verification tasks, with
\* the snapshots the coordinator publishes; of a change_mode request only the
\* first send is taken, the request layer is SpecRequest's part.
SpecVerify == Init /\ [][NextVerify]_vars

NextPoll ==
    \/ UpdateSkipped
    \/ UpdateFetch
    \/ SendInitial("poll")
    \/ authenticate("poll")
    \/ SendAgain("poll")
    \/ Retry("poll")
    \/ UpdateFinish
    \/ UpdateTimeout
    \/ SetSkip

SpecPoll == Init /\ [][NextPoll]_vars

NextQueue ==
    \/ set_target_temperature
    \/ WorkerGet
    \/ SendInitial("worker")
    \/ authenticate("worker")
    \/ SendAgain("worker")
    \/ Retry("worker")
    \/ WorkerResume
    \/ WorkerWake
    \/ Tick

SpecQueue == Init /\ [][NextQueue]_vars

(***************************************************************************)
(* Properties.                                                             *)
(***************************************************************************)
IsPrefix(s, t) == Len(s) <= Len(t) /\ SubSeq(t, 1, Len(s)) = s

\* A command item all of whose fields are set, as section 3 of the design
\* defines a valid item.
AllFieldsSet(item) ==
    ~(item.modem = "" \/ item.thermostat_id = 0 \/ item.thermostat_name = ""
      \/ item.temperature = 0)

ValidEnqueued == SelectSeq(enqueued, AllFieldsSet)

\* The PATCH requests sent for the n-th command handed to change_temperature.
PatchesOf(n) == {i \in DOMAIN patches : patches[i].n = n}

\* C1: a call of the request layer that fails (transport error, timeout,
\* non-200 status, unparsable body, failed re-authentication) while an earlier
\* HTTP 200 body is stored for its key returns that most recently stored body
\* and does not raise, however old the entry is.
C1_CacheFallback ==
    \A c \in Callers :
        (req[c].failed /\ req[c].expect # NoEntry)
            => (req[c].pc = "done" /\ req[c].result = Return(req[c].expect))

C1_Witness ==
    /\ req["cmd"].pc = "done"
    /\ req["cmd"].failed
    /\ req["cmd"].key = URL_PRODUCTS
    /\ req["cmd"].result = Return(JsonList(<<ProductB>>))
    /\ now - cache_timestamp[URL_PRODUCTS] > CACHE_TTL

\* C2 as stated: a call that met a 401 has performed exactly one authenticate()
\* and exactly one re-issued request when it returns or raises.
C2_ExactlyOneReauth ==
    \A c \in Callers :
        (req[c].pc = "done" /\ req[c].auths > 0)
            => (req[c].auths = 1 /\ req[c].resends = 1)

\* C2 amended: within one attempt a request answered 401 leads to exactly one
\* authenticate() and to one re-issued request when authenticate() succeeds,
\* none when it fails; the retrier repeats the attempt at most max_tries times,
\* so that a call authenticates at most 3 times and sends at most 6 requests.
C2_ReauthOncePerAttempt ==
    \A c \in Callers :
        LET r == req[c]
        IN  /\ r.tries <= max_tries
            /\ r.auths <= r.tries
            /\ r.sends <= 2 * r.tries
            /\ r.a_auths <= 1
            /\ (r.pc \in {"backoff", "done"} /\ r.a_401)
                   => /\ r.a_auths = 1
                      /\ r.a_sends = IF r.a_authok THEN 2 ELSE 1
            /\ (r.pc \in {"backoff", "done"} /\ ~r.a_401)
                   => (r.a_auths = 0 /\ r.a_sends = 1)

C2_Witness ==
    /\ req["cmd"].pc = "done"
    /\ req["cmd"].result.kind = "raise"
    /\ req["cmd"].a_401 /\ req["cmd"].a_authok
    /\ req["cmd"].auths = max_tries
    /\ req["cmd"].sends = 2 * max_tries

\* C3: an update that is not skipped, whose fetch returned None or raised
\* (the timeout included) while a snapshot existed, returns that snapshot
\* unchanged and raises nothing.
C3_PreservedOnFailure ==
    (poll.fetch \in {"none", "raise"} /\ poll.before # None)
        => /\ poll.outcome = "Preserved"
           /\ poll.value = poll.before
           /\ data = poll.before

C3_Witness ==
    /\ poll.fetch = "raise"
    /\ poll.before # None
    /\ poll.outcome = "Preserved"
    /\ data = poll.before

\* C4 as stated: an update fails if and only if its fetch returned None or
\* raised and no snapshot existed.
C4_FailedIffFetchFailed ==
    poll.outcome # ""
        => (poll.outcome = "Failed"
               <=> (poll.fetch \in {"none", "raise"} /\ poll.before = None))

\* C4 amended: an update fails if and only if it was not skipped, its fetch
\* raised (the timeout included) and no snapshot existed; a fetch that returns
\* None without a snapshot makes the update return None.
C4_FailedIffFetchRaised ==
    poll.outcome # ""
        => /\ poll.outcome = "Failed" <=> (poll.fetch = "raise" /\ poll.before = None)
           /\ (poll.fetch = "none" /\ poll.before = None)
                  => (poll.outcome = "Applied" /\ poll.value = None)

C4_Witness == poll.outcome = "Failed" /\ poll.fetch = "raise" /\ data = None

\* C5: an update that starts with skip_next_update set calls no API operation,
\* leaves the snapshot as it was and clears the flag.
C5_SkipStep ==
    (poll.pc = "idle" /\ skip_next_update /\ poll'.calls # poll.calls)
        => /\ data' = data
           /\ skip_next_update' = FALSE
           /\ poll'.pc = "idle"
           /\ UNCHANGED <<req, token, cache, cache_timestamp, patches>>

C5_SkipPreserves == [][C5_SkipStep]_vars

C5_Witness ==
    /\ poll.outcome = "Skipped"
    /\ poll.before # None
    /\ data = poll.before
    /\ ~skip_next_update

\* C6: the commands are handed to change_temperature, and their PATCH
\* requests are sent, in the order in which they were enqueued.
C6_FifoOrder ==
    /\ IsPrefix(started, ValidEnqueued)
    /\ \A i \in DOMAIN patches :
          patches[i].n \in DOMAIN started /\ patches[i].item = started[patches[i].n]
    /\ \A i, j \in DOMAIN patches : i < j => patches[i].n <= patches[j].n

C6_Witness ==
    /\ Len(started) = 2
    /\ started[1] # started[2]
    /\ PatchesOf(1) # {}
    /\ PatchesOf(2) # {}

\* C7 as stated: the processing of an item begins at least REQUEST_DELAY
\* seconds after the processing of the item before it began.
C7_GapAlways == worker.gap >= 0 => worker.gap >= REQUEST_DELAY

\* C7 amended: the worker processes one item at a time, and the processing of
\* an item begins at least REQUEST_DELAY seconds after the processing of the
\* item before it began when that item was valid; after a dropped item
\* the next one begins without delay.
C7_GapAfterValid ==
    /\ worker.after_valid => worker.gap >= REQUEST_DELAY
    /\ req["worker"].pc # "idle"
           => (worker.pc = "request" /\ worker.item = started[Len(started)])

C7_Witness ==
    /\ worker.after_valid
    /\ worker.gap = REQUEST_DELAY
    /\ worker.pc = "request"

C9_DropStep ==
    (worker.pc = "get" /\ queue # <<>> /\ ~AllFieldsSet(Head(queue))
     /\ queue' = Tail(queue))
        => /\ worker'.pc = "get"
           /\ UNCHANGED <<req, patches, started, token, cache>>

C9_FalsyItemDropped ==
    /\ [][C9_DropStep]_vars
    /\ [](\A i \in DOMAIN patches : AllFieldsSet(patches[i].item))

C9_Witness ==
    /\ Len(enqueued) = 2
    /\ ~AllFieldsSet(enqueued[1])
    /\ started = <<enqueued[2]>>
    /\ Len(patches) = 1

\* C10: the worker keeps running when the processing of an item raises.
C10_WorkerKeepsRunning == worker.pc # "dead"

\* C11: a write command of the facade (_send_command and its callers,
\* reset_filter) whose HTTP request fails raises to its caller, and a value it
\* returns is the parsed response of that very command.
C11_FailedCommandRaises ==
    (req["cmd"].pc = "done" /\ req["cmd"].key \in {URL_COMMANDS, URL_RESET_FILTER})
        => /\ req["cmd"].failed => FacadeResult(req["cmd"]).kind = "raise"
           /\ FacadeResult(req["cmd"]).kind = "return" => ~req["cmd"].failed

\* C12 as stated: the cached body is returned only once the retrier has
\* exhausted its attempts (max_tries attempts made, or max_time elapsed).
C12_FallbackAfterLastAttempt ==
    \A c \in Callers :
        (req[c].pc = "done" /\ req[c].failed /\ req[c].result.kind = "return")
            => req[c].exhausted

\* C12 amended: the cache is read inside every attempt, before the retrier
\* decides; an attempt that fails while its key has an entry returns the
\* cached body at once and is never re-attempted, so that the retrier only
\* re-attempts calls whose key had no entry, and no limit of the retrier is
\* involved in a fallback.
C12_FallbackAtFirstFailure ==
    \A c \in Callers :
        /\ req[c].pc = "backoff" => req[c].expect = NoEntry
        /\ (req[c].pc = "done" /\ req[c].failed /\ req[c].expect # NoEntry)
               => (req[c].result.kind = "return" /\ req[c].giveup = "")

C12_Witness ==
    /\ req["cmd"].pc = "done"
    /\ req["cmd"].failed
    /\ req["cmd"].result.kind = "return"
    /\ req["cmd"].tries = 1
    /\ ~req["cmd"].exhausted

\* C13 as stated: an attempt that ends with a non-200 status while the key
\* has no cache entry ends the call: the error reaches the caller after that
\* single attempt.
C13_StatusNotRetried ==
    \A c \in Callers :
        req[c].result.exc = "ClientError(status)"
            => (req[c].pc = "done" /\ req[c].tries = 1)

\* C13 amended: the error raised for a non-200 status is a ClientError, which
\* the retrier re-attempts like a transport error or a timeout: it reaches
\* the caller only when max_tries attempts were made or max_time has elapsed.
\* Only an error of another class (AuthenticationError) reaches the caller
\* without a limit of the retrier.
C13_StatusRetried ==
    \A c \in Callers :
        LET r == req[c]
        IN  /\ (r.pc = "done" /\ r.result.kind = "raise"
                 /\ r.result.exc \in {"ClientError(status)", "ClientError(invalid)",
                                      "ClientConnectionError", "TimeoutError"})
                    => /\ r.giveup \in {"max_tries", "max_time"}
                       /\ r.giveup = "max_tries" <=> r.tries = max_tries
            /\ (r.pc = "done" /\ r.result.exc = "AuthenticationError")
                    => r.giveup = ""
            /\ r.pc = "backoff"
                    => /\ r.tries < max_tries
                       /\ r.result.exc \in {"ClientError(status)", "ClientError(invalid)",
                                            "ClientConnectionError", "TimeoutError"}

C13_Witness ==
    /\ req["cmd"].pc = "done"
    /\ req["cmd"].result = Raise("ClientError(status)")
    /\ req["cmd"].tries = max_tries
    /\ req["cmd"].sends = max_tries
    /\ req["cmd"].giveup = "max_tries"

\* C14: the cache entry of a key changes only in the step in which a request
\* for that key was answered HTTP 200 with a body that parsed, and it becomes
\* that body, which the call returns; every other step (a failed attempt, a
\* fallback read, a re-authentication, a retry) leaves every entry and every
\* timestamp as it was.
C14_WriteStep ==
    \A k \in CacheKeys :
        (cache'[k] # cache[k] \/ cache_timestamp'[k] # cache_timestamp[k])
            => \E c \in Callers :
                  /\ req[c].key = k
                  /\ req[c].pc \in {"send1", "send2"}
                  /\ req'[c].pc = "done"
                  /\ ~req'[c].failed
                  /\ req'[c].result = Return(cache'[k])
                  /\ cache'[k] \in ServerBodies(k)
                  /\ cache_timestamp'[k] = now

C14_WrittenOnSuccessOnly == [][C14_WriteStep]_vars

C14_Witness ==
    /\ req["cmd"].pc = "done"
    /\ req["cmd"].failed
    /\ req["cmd"].key = URL_PRODUCTS
    /\ cache[URL_PRODUCTS] = JsonList(<<ProductA>>)
    /\ cache[URL_THERMOSTATS] = Ack
    /\ cache_timestamp[URL_PRODUCTS] < now

\* C15: one invocation of the interceptor sends at most two requests and
\* calls authenticate() at most once; the answer of the re-issued request is
\* not tested again: a second 401 starts no other authentication and fails the
\* attempt like any non-200 status.
C15_ResendStep ==
    \A c \in Callers :
        (req[c].pc = "send2" /\ req'[c] # req[c])
            => /\ req'[c].pc \in {"done", "backoff"}
               /\ req'[c].a_sends = 2
               /\ req'[c].a_auths = 1
               /\ token' = token
               /\ req'[c].a_status = HTTP_UNAUTHORIZED
                      => /\ req'[c].failed
                         /\ req'[c].expect = NoEntry
                                => req'[c].result = Raise("ClientError(status)")

C15_AtMostTwoRequests ==
    /\ [][C15_ResendStep]_vars
    /\ [](\A c \in Callers : req[c].a_sends <= 2 /\ req[c].a_auths <= 1)

C15_Witness ==
    /\ req["cmd"].pc = "done"
    /\ req["cmd"].a_status = HTTP_UNAUTHORIZED
    /\ req["cmd"].a_sends = 2
    /\ req["cmd"].a_auths = 1
    /\ req["cmd"].result = Raise("ClientError(status)")

\* C16: authenticate() stores the access_token of an HTTP 200 answer and
\* returns; answered with any other status, or with no answer (network error,
\* timeout), it raises AuthenticationError; it makes one request only and a
\* failure leaves the token as it was.
C16_AuthStep ==
    \A c \in Callers :
        (req[c].pc = "auth" /\ req'[c] # req[c])
            => /\ req'[c].a_auths = 1
               /\ req'[c].a_auth.raised = "" => token' \in Tokens
               /\ req'[c].a_auth.raised # "" => token' = token
               /\ req'[c].a_auth.status # HTTP_OK
                      => req'[c].a_auth.raised = "AuthenticationError"

C16_AuthenticateOutcome == [][C16_AuthStep]_vars

\* C17: set_target_temperature appends one item to the queue and returns: it
\* sends no HTTP request and touches nothing else, and it can always be
\* taken, whatever the length of the queue and the state of the worker (the
\* queue is unbounded).
C17_EnqueueStep ==
    Len(enqueued') > Len(enqueued)
        => /\ queue' = Append(queue, enqueued'[Len(enqueued')])
           /\ Len(enqueued') = Len(enqueued) + 1
           /\ UNCHANGED <<req, patches, started, worker, token, cache>>

C17_EnqueueOnly ==
    /\ [][C17_EnqueueStep]_vars
    /\ [](Len(enqueued) < MaxEnq => ENABLED set_target_temperature)

C17_Witness ==
    /\ worker.pc = "dead"
    /\ Len(enqueued) = 2
    /\ queue = <<enqueued[2]>>
    /\ patches # <<>>

\* A products body that is not a non-empty list whose first element is an
\* object with the expected keys.
Malformed(body) ==
    IF body.type # "list" THEN TRUE
    ELSE IF Len(body.items) = 0 THEN TRUE
    ELSE IF body.items[1].type # "dict" THEN TRUE
    ELSE body.items[1].keys = "partial"

\* C18: fetch_data returns None and raises nothing when the response is
\* malformed: a body that is not a list, an empty list, a first element that
\* is not an object, or a first element that lacks expected keys.
C18_MalformedGivesNone ==
    (req["poll"].pc = "done" /\ req["poll"].result.kind = "return"
     /\ Malformed(req["poll"].result.body))
        => fetch_data(req["poll"].result) = Value(None)

\* C19: get_statistics returns the parsed body when its request succeeds and
\* None when it fails with no cached body to fall back on, a failed
\* re-authentication included; no error propagates to its caller.
C19_StatisticsNeverRaises ==
    (req["cmd"].pc = "done" /\ req["cmd"].key = URL_STATISTICS)
        => LET g == FacadeResult(req["cmd"])
           IN  /\ g.kind = "return"
               /\ ~req["cmd"].failed => g.value = req["cmd"].result.body
               /\ (req["cmd"].failed /\ req["cmd"].expect = NoEntry) => g.value = None

\* C20: the snapshot built from an empty payload is built without an
\* exception and is well formed: consumers can read its thermostat list,
\* which is empty, it is not connected, its air and water modes are OFF, its
\* setpoints are zero and its weekly plannings are empty.
C20_DefaultSnapshotWellFormed ==
    (req["poll"].pc = "done" /\ req["poll"].result.kind = "return"
     /\ req["poll"].result.body = JsonList(<<ProductEmpty>>))
        => LET f == fetch_data(req["poll"].result)
           IN  /\ f.kind = "return"
               /\ f.value.type = "entity"
               /\ ~f.value.is_connected
               /\ f.value.indicator.current_air_mode = "A"
               /\ f.value.indicator.current_water_mode = "L"
               /\ f.value.indicator.fmist = 0 /\ f.value.indicator.fmast = 0
               /\ f.value.indicator.cmist = 0 /\ f.value.indicator.cmast = 0
               /\ f.value.week_planning = <<>> /\ f.value.week_planning2 = <<>>
               /\ f.value.week_planning3 = <<>> /\ f.value.week_planning4 = <<>>
               /\ ReadAttr(f.value.indicator.thermostats) = Value(<<>>)

\* A snapshot all of whose fields come from the one product p.
SnapshotOf(d, p) ==
    /\ d.is_connected = p.isConnected
    /\ d.modem = p.modem
    /\ d.temperature_set = p.TemperatureSet
    /\ d.week_planning = p.week_planning
    /\ d.indicator.thermostats.set
    /\ Len(d.indicator.thermostats.value) = 1
    /\ d.indicator.thermostats.value[1].temperature_set = p.TemperatureSet

\* The snapshot of defaults, built from an empty product.
DefaultSnapshot(d) ==
    /\ ~d.is_connected
    /\ d.modem = ""
    /\ d.temperature_set = 0
    /\ d.week_planning = <<>>
    /\ ~d.indicator.thermostats.set

Complete(d) ==
    \/ d = None
    \/ d.type = "entity" /\ DefaultSnapshot(d)
    \/ d.type = "entity" /\ \E p \in {ProductA, ProductB} : SnapshotOf(d, p)

\* C21: at every step of a poll tick the coordinator's snapshot is a complete
\* snapshot built from one fetch (or none yet); it changes only in the step
\* that ends an update, from the complete previous snapshot to the complete
\* value the update returned.
C21_PublishStep ==
    data' # data
        => /\ poll.pc = "fetching"
           /\ poll'.pc = "idle"
           /\ poll'.before = data
           /\ poll'.value = data'
           /\ poll'.outcome = "Applied"

C22_DelayedActionStep ==
    \A n \in 1..MaxCmds :
        (climate.tasks[n] = "sleeping" /\ climate'.tasks[n] \in {"verifying", "done"})
            => n = climate.cmds

C22_LastWriterWins ==
    /\ [](Cardinality({n \in 1..MaxCmds : climate.tasks[n] = "sleeping"}) <= 1)
    /\ [][C22_DelayedActionStep]_vars

\* C23: a client without token whose first request is answered 401, whose
\* credentials are accepted and whose re-issued request is answered with a
\* product list: the first fetch_data authenticates exactly once, leaves a
\* non-empty token and returns a snapshot whose is_connected is the isConnected
\* of the first product.
C23_FirstFetch ==
    /\ poll.pc = "fetching"
    /\ poll.fresh
    /\ req["poll"].pc = "done"
    /\ req["poll"].tries = 1
    /\ req["poll"].a_401
    /\ req["poll"].a_authok
    /\ req["poll"].a_status = HTTP_OK
    /\ req["poll"].result.kind = "return"
    /\ req["poll"].result.body.type = "list"
    /\ Len(req["poll"].result.body.items) > 0
    /\ req["poll"].result.body.items[1].type = "dict"
    /\ req["poll"].result.body.items[1].keys = "all"

C23_AuthStep ==
    (/\ poll.pc = "fetching" /\ poll.fresh
     /\ req["poll"].pc = "auth" /\ req["poll"].tries = 1
     /\ req'["poll"].a_authok)
        => (token = "" /\ token' \in Tokens /\ req'["poll"].auths = 1)

C23_ReturnStep ==
    (C23_FirstFetch /\ poll'.pc = "idle")
        => /\ req["poll"].auths = 1
           /\ token \in Tokens
           /\ poll'.outcome = "Applied"
           /\ data'.type = "entity"
           /\ data'.is_connected = req["poll"].result.body.items[1].isConnected

C23_FirstFetchAuthenticatesOnce ==
    [][C23_AuthStep /\ C23_ReturnStep]_vars

C23_Witness ==
    /\ poll.pc = "idle"
    /\ poll.fresh
    /\ poll.outcome = "Applied"
    /\ poll.before = None
    /\ token \in Tokens
    /\ data # None
    /\ SnapshotOf(data, ProductA)

\* C24: set_holidays_mode(modem, S, E) posts changeMode with id 1 and the one
\* parameter "W"+S+E; cancel_holidays_mode(modem) posts changeMode with id 1
\* and the fixed parameter "W00010101000000Z00010101000000Z", whatever was
\* posted before, so that two cancellations post the same command.
C24_CancelParam == "W00010101000000Z00010101000000Z"

C24_HolidaysCommands ==
    /\ \A i \in 1..Len(posted) :
          /\ posted[i].call = "set_holidays_mode"
                => /\ posted[i].command.method = "changeMode"
                   /\ posted[i].command.id = 1
                   /\ posted[i].command.params
                         = <<"W" \o posted[i].args[1] \o posted[i].args[2]>>
          /\ posted[i].call = "cancel_holidays_mode"
                => /\ posted[i].command.method = "changeMode"
                   /\ posted[i].command.id = 1
                   /\ posted[i].command.params = <<C24_CancelParam>>
    /\ \A i, j \in 1..Len(posted) :
          (posted[i].call = "cancel_holidays_mode"
              /\ posted[j].call = "cancel_holidays_mode")
              => posted[i].command = posted[j].command

C24_Witness ==
    /\ Len(posted) = 2
    /\ posted[1].call = "set_holidays_mode"
    /\ posted[1].args = <<"20251220000000Z", "20260105000000Z">>
    /\ posted[1].command.params = <<"W20251220000000Z20260105000000Z">>
    /\ posted[2].call = "cancel_holidays_mode"
    /\ posted[2].command.params = <<C24_CancelParam>>

\* The integers around price * 1000.
Around(kwh) == ((kwh \div 10) - 1)..((kwh \div 10) + 2)

\* The integer part of price * 1000 for a price counted in 1/10000 EUR: the
\* integer nearest to zero of the two around it.
IntegerPart(kwh) ==
    CHOOSE n \in Around(kwh) :
        IF kwh >= 0 THEN n * 10 <= kwh /\ kwh < n * 10 + 10
        ELSE kwh <= n * 10 /\ n * 10 - 10 < kwh

\* The fourth decimal of a price, the part that the conversion loses.
Fraction(kwh) == (IF kwh >= 0 THEN kwh ELSE -kwh) % 10

\* An integer nearest to price * 1000.
Nearest(kwh) ==
    CHOOSE n \in Around(kwh) : n * 10 - 5 <= kwh /\ kwh <= n * 10 + 5

PriceParam(peak, offpeak) == "P" \o ToString(peak) \o "C" \o ToString(offpeak)

\* C25: set_kwh_prices converts each price to integer milli-euros by cutting
\* the fraction off (towards zero) and sends "P{peak}C{offpeak}" through a
\* prixkwh command; the prices 0.1897 and 0.1423 give "P189C142".
C25_PricesTruncated ==
    \A i \in 1..Len(posted) :
        posted[i].call = "set_kwh_prices"
            => /\ posted[i].command.method = "prixkwh"
               /\ posted[i].command.params
                     = <<PriceParam(IntegerPart(posted[i].args[1]),
                                    IntegerPart(posted[i].args[2]))>>
               /\ posted[i].args = <<1897, 1423>>
                     => posted[i].command.params = <<"P189C142">>

C25_Witness ==
    /\ Len(posted) > 0
    /\ posted[1].call = "set_kwh_prices"
    /\ posted[1].args = <<1897, 1423>>
    /\ posted[1].command = JsonRpc("prixkwh", 1, "P189C142")

\* C26: (as claimed) set_kwh_prices converts each price to round(price * 1000),
\* the nearest integer, before it formats "P{peak}C{offpeak}".
C26_PricesRounded ==
    \A i \in 1..Len(posted) :
        posted[i].call = "set_kwh_prices"
            => posted[i].command.params
                 = <<PriceParam(Nearest(posted[i].args[1]),
                                Nearest(posted[i].args[2]))>>

\* C26: (amended) the parameter holds the integer parts of price * 1000, and
\* whenever the lost fraction of a price is a half or more this is not the
\* nearest integer.
C26_PricesNotRounded ==
    \A i \in 1..Len(posted) :
        posted[i].call = "set_kwh_prices"
            => LET peak == posted[i].args[1]
                   offpeak == posted[i].args[2]
                   param == posted[i].command.params[1]
               IN  /\ param = PriceParam(IntegerPart(peak), IntegerPart(offpeak))
                   /\ (Fraction(peak) > 5 \/ Fraction(offpeak) > 5)
                         => param # PriceParam(Nearest(peak), Nearest(offpeak))

C26_Witness ==
    /\ Len(posted) > 0
    /\ posted[1].call = "set_kwh_prices"
    /\ posted[1].args = <<1897, 1500>>
    /\ posted[1].command.params = <<"P189C150">>
    /\ Nearest(1897) = 190

\* C27: (as claimed) every JSON-RPC command handed to _send_command, by a
\* facade method or a registered service, has one of the six methods.
C27_Methods ==
    {"changeMode", "changePlanningModeA", "changePlanningModeB", "changePeople",
     "antilegio", "prixkwh"}

C27_MethodInSet ==
    \A i \in 1..Len(posted) : posted[i].command.method \in C27_Methods

\* C29: every _api_request call terminates: it makes at most 3 attempts, each
\* of at most 2 HTTP requests and at most one authenticate(), and then has
\* returned a body or raised.  StepsLeft bounds the steps a call can still
\* take; every step of a call lowers it.
StepsLeft(r) ==
    IF r.pc \in {"idle", "done"} THEN 0
    ELSE 4 * (max_tries - r.tries)
           + (IF r.pc = "send1" THEN 4 ELSE IF r.pc = "auth" THEN 3
              ELSE IF r.pc = "send2" THEN 2 ELSE 1)

C29_RequestStep ==
    \A c \in Callers :
        (req[c].pc \notin {"idle", "done"} /\ req'[c] # req[c])
            => /\ StepsLeft(req'[c]) < StepsLeft(req[c])
               /\ StepsLeft(req'[c]) >= 0
               /\ req'[c].pc = "done" => req'[c].result.kind \in {"return", "raise"}

C29_Terminates ==
    /\ [][C29_RequestStep]_vars
    /\ [](\A c \in Callers :
            /\ req[c].tries <= max_tries
            /\ req[c].a_sends <= 2
            /\ req[c].a_auths <= 1
            /\ StepsLeft(req[c]) <= 4 * max_tries
            /\ req[c].pc # "done" => req[c].result.kind # "return")

C29_Witness ==
    /\ req["cmd"].pc = "done"
    /\ req["cmd"].tries = max_tries
    /\ req["cmd"].sends = 2 * max_tries
    /\ req["cmd"].auths = max_tries
    /\ req["cmd"].result.kind = "return"

\* C30: when authenticate() raises AuthenticationError during the request of
\* an update and the key has no cache entry, the request layer makes no further
\* attempt, the AuthenticationError passes through fetch_data, and the update
\* raises UpdateFailed only when no snapshot exists: with one it returns it.
C30_AuthFailStep ==
    (/\ req["poll"].pc = "auth"
     /\ req'["poll"].a_auth.raised = "AuthenticationError"
     /\ cache[req["poll"].key] = NoEntry)
        => /\ req'["poll"].pc = "done"
           /\ req'["poll"].result = Raise("AuthenticationError")
           /\ req'["poll"].tries = req["poll"].tries
           /\ req'["poll"].a_sends = 1

C30_UpdateStep ==
    (/\ poll.pc = "fetching"
     /\ req["poll"].pc = "done"
     /\ req["poll"].result = Raise("AuthenticationError")
     /\ poll'.pc = "idle")
        => /\ poll'.fetch = "raise"
           /\ poll'.raised = "AuthenticationError"
           /\ data' = data
           /\ poll'.outcome = IF data = None THEN "Failed" ELSE "Preserved"

C30_AuthenticationErrorSurfaces ==
    [][C30_AuthFailStep /\ C30_UpdateStep]_vars

C30_Witness ==
    /\ poll.pc = "idle"
    /\ poll.outcome = "Failed"
    /\ poll.raised = "AuthenticationError"
    /\ data = None
    /\ cache[URL_PRODUCTS] = NoEntry

\* C28: (as claimed) the first poll tick that starts after the command of a
\* climate write has been issued to the API is skipped.
C28_FirstTickSkipped ==
    [][(poll'.calls # poll.calls /\ climate.awaiting)
          => (poll'.outcome = "Skipped" /\ data' = data)]_vars

\* C31: every request the client sends carries "Bearer " followed by the token
\* it holds at that moment, which is the access token of the latest successful
\* authentication (empty before the first): the token only changes to the
\* access token of a successful authenticate(), a failed one leaves it, and
\* the request re-issued after a 401 carries a granted token, also when
\* other tasks authenticate in between.
C31_SendStep ==
    \A c \in Callers :
        req'[c].sends = req[c].sends + 1
            => /\ req'[c].bearer = "Bearer " \o token
               /\ token' = token
               /\ req[c].pc = "send2" => token \in Tokens

C31_TokenStep ==
    /\ token' # token => token' \in Tokens
    /\ \A c \in Callers :
          (req[c].pc = "auth" /\ req'[c] # req[c] /\ ~req'[c].a_authok)
              => token' = token

C31_BearerIsCurrentToken ==
    /\ [][C31_SendStep /\ C31_TokenStep]_vars
    /\ [](token = "" => \A c \in Callers : req[c].bearer \in {"", "Bearer "})

C31_Witness ==
    /\ req["cmd"].pc = "done"
    /\ req["cmd"].tries = 2
    /\ req["cmd"].a_401 /\ req["cmd"].a_authok
    /\ req["cmd"].result.kind = "return"
    /\ token = "t2"
    /\ req["cmd"].bearer = "Bearer t2"

\* C32: once the coordinator holds a snapshot, no update (skipped, fetch
\* returning None, fetch raising, timeout) leaves it without one, and no
\* update raises UpdateFailed.
C32_UpdateStep ==
    (data # None /\ poll' # poll)
        => /\ data' # None
           /\ poll'.outcome # "Failed"
           /\ poll'.pc = "idle" => poll'.value # None

C32_SnapshotNeverLost ==
    /\ [][C32_UpdateStep]_vars
    /\ [](data # None => poll.outcome # "Failed")

C32_Witness ==
    /\ poll.pc = "idle"
    /\ poll.fetch = "none"
    /\ poll.outcome = "Preserved"
    /\ poll.before # None
    /\ data # None
    /\ data = poll.before

\* C33: the skip flag is one boolean that the next update consumes: an update
\* that begins with the flag set clears it and returns without calling
\* fetch_data, an update that begins with the flag clear fetches, and nothing
\* but the beginning of an update clears the flag; so after the flag was set,
\* once or several times, exactly one update is skipped and the update after
\* it fetches unless the flag was set again.
C33_UpdateBegins ==
    poll'.calls # poll.calls
        => IF skip_next_update
           THEN /\ ~skip_next_update'
                /\ poll'.pc = "idle" /\ poll'.outcome = "Skipped"
                /\ req' = req
           ELSE /\ poll'.pc = "fetching"
                /\ req'["poll"].pc = "send1"
                /\ ~skip_next_update'

C33_FlagConsumedOnce ==
    [][/\ C33_UpdateBegins
       /\ (skip_next_update /\ ~skip_next_update')
             => (poll'.calls # poll.calls /\ poll'.outcome = "Skipped")
       /\ (poll.outcome = "Skipped" /\ ~skip_next_update /\ poll'.calls # poll.calls)
             => (poll'.pc = "fetching" /\ poll'.after_skip)]_vars

C33_Witness ==
    /\ poll.pc = "fetching"
    /\ poll.after_skip
    /\ ~skip_next_update
    /\ req["poll"].sends = 1

\* C34: (as claimed) once a products fetch has given the coordinator a
\* snapshot, every later fetch_data whose request fails (transport error,
\* timeout of the HTTP client, status other than 200) returns a snapshot built
\* from the cached products body, never None, and the update publishes it
\* instead of keeping the previous one.
C34_FailedFetch ==
    /\ poll.pc = "fetching"
    /\ data # None
    /\ req["poll"].pc = "done"
    /\ req["poll"].failed
    /\ req["poll"].a_status # HTTP_OK
    /\ req["poll"].a_auth.raised \in {"none", ""}

C34_CacheRebuildsSnapshot ==
    [][(C34_FailedFetch /\ poll'.pc = "idle")
          => /\ poll'.fetch = "value"
             /\ poll'.outcome = "Applied"
             /\ data' # None]_vars

\* The mode the entity is in for the offset: the effective mode it has
\* computed, or the one the snapshot gives when it has computed none yet.
C35_EffectiveMode ==
    IF climate.effective # "" THEN climate.effective
    ELSE Or(_get_active_program_mode(data, data.indicator.current_air_mode),
            data.indicator.current_air_mode)

C35_Offset(mode) == IF mode = "C" THEN 10 * ECO_MODE_TEMPERATURE_OFFSET ELSE 0

C35_SendStep ==
    climate'.temps = climate.temps + 1 =>
        10 * enqueued'[Len(enqueued')].temperature
            = climate'.target + C35_Offset(C35_EffectiveMode)

C35_DisplayStep ==
    (climate'.temps = climate.temps /\ climate'.target # climate.target) =>
        /\ _get_thermostat_by_id(data', 1) # {}
        /\ \A t \in _get_thermostat_by_id(data', 1) :
              climate'.target = 10 * t.temperature_set - C35_Offset(climate'.effective)

\* C35: in the effective mode HEAT_ECO the setpoint put on the queue is the
\* user's target plus the offset of 2 degrees and the displayed target is the
\* setpoint of the device minus the offset; in every other mode the setpoint
\* sent is the user's target and the displayed target is the setpoint.
C35_OffsetOnceEachWay == [][C35_SendStep /\ C35_DisplayStep]_vars

C36_Live == {"sleeping", "verifying", "resending", "resent"}

\* No command is sent again more than once.
C36_AtMostOnce ==
    \A k \in {"mode", "temperature"}, n \in 1..MaxCmds : climate.resends[k][n] <= 1

\* The queue gets an item from a user command or from a verification task
\* that reads, in the snapshot, a setpoint other than the one it expects; the
\* item is then the pending command's.
C36_TemperatureStep ==
    enqueued' # enqueued =>
        \/ climate'.temps = climate.temps + 1
        \/ \E n \in 1..MaxCmds :
              /\ climate.ttasks[n] = "verifying"
              /\ climate.pending_temperature.cmd = n
              /\ climate.resends["temperature"][n] = 0
              /\ climate'.resends["temperature"][n] = 1
              /\ data # None
              /\ \E i \in DOMAIN data.indicator.thermostats.value :
                    /\ data.indicator.thermostats.value[i].id = 1
                    /\ data.indicator.thermostats.value[i].temperature_set
                           # climate.pending_temperature.target
              /\ enqueued' = Append(enqueued,
                                    [modem |-> "m1", thermostat_id |-> 1,
                                     thermostat_name |-> "T",
                                     temperature |-> climate.pending_temperature.target])

\* A verification task calls change_mode only when the snapshot shows an air
\* mode other than the expected one, and with the expected mode.
C36_ModeStep ==
    (req'["verify"].pc = "send1" /\ req["verify"].pc # "send1") =>
        \E n \in 1..MaxCmds :
           /\ climate.tasks[n] = "verifying"
           /\ climate.pending.cmd = n
           /\ climate.resends["mode"][n] = 0
           /\ climate'.resends["mode"][n] = 1
           /\ data # None
           /\ data.indicator.current_air_mode # climate.pending.expected_mode
           /\ climate'.resent = climate.pending.expected_mode

\* A task that ends otherwise than by being cancelled leaves no pending
\* change, and tasks are created by the command handlers only.
C36_EndStep ==
    /\ \A n \in 1..MaxCmds :
          /\ (climate.ttasks[n] \in C36_Live /\ climate'.ttasks[n] = "done")
                => climate'.pending_temperature.cmd = 0
          /\ (climate.tasks[n] \in C36_Live /\ climate'.tasks[n] = "done")
                => climate'.pending.cmd = 0
          /\ (climate.ttasks[n] = "none" /\ climate'.ttasks[n] # "none")
                => climate'.temps = n /\ climate.temps = n - 1
          /\ (climate.tasks[n] = "none" /\ climate'.tasks[n] # "none")
                => climate.hvac = "calling" /\ climate'.hvac = "idle"
          /\ climate.ttasks[n] \in {"done", "cancelled"}
                => climate'.ttasks[n] = climate.ttasks[n]
          /\ climate.tasks[n] \in {"done", "cancelled"}
                => climate'.tasks[n] = climate.tasks[n]

\* C36: the verification task of a temperature or mode command sends the
\* command again at most once, and only when the snapshot it reads does not
\* show the expected setpoint or air mode; it then clears the pending change,
\* ends, and starts no other task.
C36_VerifyOnce ==
    []C36_AtMostOnce /\ [][C36_TemperatureStep /\ C36_ModeStep /\ C36_EndStep]_vars

\* Both tasks have sent their command again once and have ended.
C36_Witness ==
    \E m, n \in 1..MaxCmds :
       /\ climate.resends["mode"][m] = 1
       /\ climate.tasks[m] = "done"
       /\ climate.resends["temperature"][n] = 1
       /\ climate.ttasks[n] = "done"
       /\ climate.pending.cmd = 0
       /\ climate.pending_temperature.cmd = 0

C37_NewStep ==
    \A x \in {posted'[i] : i \in DOMAIN posted'} \ {posted[i] : i \in DOMAIN posted} :
       /\ x.call = "AldesKwhCreuseNumber" => x.args[1] = ReportedSettings.kwh_pleine
       /\ x.call = "AldesKwhPleineNumber" => x.args[2] = ReportedSettings.kwh_creuse

\* C37: the command of a price entity carries, for the other price, the value
\* the device reported in its settings (every device of the model reports
\* both prices), so that the other price is left as it is on the device.
C37_OtherPriceKept == [][C37_NewStep]_vars

\* The place, in the order of the puts, of the item the worker takes next.
C38_Next == Len(enqueued) - Len(queue) + 1

C38_Step ==
    (worker.owner = "none" /\ started' # started) => C38_Next > worker.kept

\* C38: once the entry has let go of its client, the worker hands no item
\* that was on the queue at that time to change_temperature.
C38_WorkerStopped == [][C38_Step]_vars

====
